---- MODULE Spec2Model ----
(***************************************************************************)
(* A model of the scenario-selection engine of the personal-finance        *)
(* simulation (simulation_game_ui_hud/scenario_engine_choices.py) and of   *)
(* the session layer that drives it (simulation_game_ui_hud/app.py).       *)
(*                                                                         *)
(* Numbers.  The program computes with binary floating point.  The model   *)
(* computes with exact fixed point:                                        *)
(*   - money in units of 1/10000 dollar (Dollar units per dollar), so that *)
(*     round(x, 2) is a real conversion (Round2) and not the identity;     *)
(*   - probabilities and random() draws in units of 1/10000 (Certain       *)
(*     stands for 1.0);                                                    *)
(*   - tag weights and predisposition multipliers in units of 1/100 (One   *)
(*     stands for 1.0).                                                    *)
(* Random draws are choices from small sample sets; an engine operation is *)
(* an operator giving the SET of its possible outcomes.                    *)
(* uuid values (offer ids, event ids, plan ids) are opaque and never read  *)
(* by the engine except the offer id, which keys the choice map: an offer  *)
(* id is modelled by <<day, position in the day's offer list>>.            *)
(***************************************************************************)
EXTENDS Integers, Sequences, FiniteSets, TLC

\* ------------------------------------------------------------ fixed point
Dollar == 100 * 100
Cent == Dollar \div 100
One == 10 * 10
Certain == 100 * 100

Max(a, b) == IF a >= b THEN a ELSE b
Min(a, b) == IF a <= b THEN a ELSE b
Abs(a) == IF a < 0 THEN 0 - a ELSE a

\* dict.get(key, default)
Get(rec, key, default) == IF key \in DOMAIN rec THEN rec[key] ELSE default

EmptyDict == [key \in {} |-> 0]

\* a * (num / den), exact on the amounts the model draws
MulFrac(a, num, den) == (a * num) \div den

\* round(x, 2): to the nearest cent, an exact tie to the even cent
Round2(x) ==
    LET q == x \div Cent
        r == x % Cent
        half == Cent \div 2
    IN  IF r < half THEN q * Cent
        ELSE IF r > half THEN (q + 1) * Cent
        ELSE IF q % 2 = 0 THEN q * Cent ELSE (q + 1) * Cent

\* the largest r with r^n <= x (x ** (1.0 / n) in fixed point)
IRoot(x, n) ==
    IF n = 1 THEN x ELSE CHOOSE r \in 0..(2 * One) : r ^ n <= x /\ x < (r + 1) ^ n

RECURSIVE SeqSum(_)
SeqSum(s) == IF s = <<>> THEN 0 ELSE Head(s) + SeqSum(Tail(s))

SeqToSet(s) == {s[i] : i \in DOMAIN s}

\* ---------------------------------------------------------- random draws
\* random.random() in [0, 1): the sample points of the model
RandomSamples == {0, 9500}
\* a point of a continuous distribution that is not a whole number of cents
OffGrid == 4 * 10

\* ------------------------------------------- segments, moods, tags (data)
SEGMENTS ==
    [early_career |-> [tag_weights |->
        [salary |-> 120, gig_income |-> 100, leisure |-> 120, groceries |-> 100,
         subscriptions |-> 130, donation |-> 90, gambling |-> 90, investment |-> 90,
         rent |-> 120, transport |-> 110, electronics |-> 110]],
     unemployed_no_benefits |-> [tag_weights |->
        [salary |-> 10, benefits_income |-> 50, gig_income |-> 130, leisure |-> 50,
         groceries |-> 100, emergency |-> 130, fees |-> 130, donation |-> 30,
         investment |-> 30, subscriptions |-> 80, debt |-> 130]],
     executive_high_income |-> [tag_weights |->
        [salary |-> 140, investment |-> 160, leisure |-> 140, luxury |-> 160,
         donation |-> 150, travel |-> 150, subscriptions |-> 120, fees |-> 100,
         mortgage |-> 120]]]

MOODS ==
    [optimistic |-> [investment |-> 120, leisure |-> 110, donation |-> 110, savings |-> 105],
     bored |-> [leisure |-> 130, entertainment |-> 120, gambling |-> 120, shopping |-> 115],
     generous |-> [donation |-> 150, gift |-> 120],
     reckless |-> [gambling |-> 160, luxury |-> 120, investment |-> 110]]

DISCRETIONARY_TAGS ==
    {"leisure", "entertainment", "shopping", "luxury", "travel", "donation",
     "gambling", "electronics", "clothes", "sports", "gift"}

\* the balance below which discretionary spending is suppressed (200.0)
LowBalance == 200 * Dollar

\* --------------------------------------------------------- distributions
\* lognormal_amount: a positive sample clipped to [min_clip, max_clip]; the
\* sample points are half the mean and a point just above the mean
lognormal_amount(mean, sigma, min_clip, max_clip) ==
    LET lo(s) == IF min_clip # <<>> THEN Max(s, min_clip[1]) ELSE s
        hi(s) == IF max_clip # <<>> THEN Min(s, max_clip[1]) ELSE s
    IN  {hi(lo(s)) : s \in {mean \div 2, mean + OffGrid}}

\* np.random.uniform(low, high): both ends and a point between them
uniform(low, high) == {low, ((low + high) \div 2) + OffGrid, high}

\* draw_amount: the set of magnitudes a draw can give
draw_amount(spec, context) ==
    LET dist == Get(spec, "dist", "fixed") IN
    CASE dist = "fixed" -> {spec.value}
      [] dist = "uniform" -> uniform(spec.low, spec.high)
      [] dist = "normal" ->
            {Max(v, Get(spec, "min", 0)) : v \in {spec.mean - 3 * spec.sd, spec.mean + OffGrid}}
      [] dist = "lognormal" ->
            lognormal_amount(spec.mean, spec.sigma, <<Get(spec, "min", 0)>>,
                             IF "max" \in DOMAIN spec THEN <<spec.max>> ELSE <<>>)
      [] dist = "percent_of_pay" ->
            LET last_pay == Get(context, "last_pay_amount",
                                Get(context, "default_pay_amount", 2000 * Dollar))
            IN  {MulFrac(Abs(last_pay), Get(spec, "pct", 20), 100)}
      [] dist = "choice" -> SeqToSet(spec.options)
      [] OTHER -> {Get(spec, "value", 0)}

RECURSIVE SeqProdFloor(_)
SeqProdFloor(values) ==
    IF values = <<>> THEN 1 ELSE Max(Head(values), 0) * SeqProdFloor(Tail(values))

\* geometric_mean of weights (units of 1/One): 1.0 for no values
geometric_mean(values) ==
    IF values = <<>> THEN One ELSE IRoot(SeqProdFloor(values), Len(values))

\* ------------------------------------------------------- engine helpers
\* self.by_id.get(id): the last catalog entry with that id, <<>> for None
by_id_get(e, id) ==
    LET hits == {i \in DOMAIN e.catalog : e.catalog[i].id = id}
    IN  IF hits = {} THEN <<>>
        ELSE <<e.catalog[CHOOSE i \in hits : \A j \in hits : j <= i]>>

\* a variant of is_scheduled_today that starts every pay cycle, the
\* semimonthly one too, on its start day
is_scheduled_today_from_start(scn, user, day) ==
    LET sched == scn.schedule IN
    IF sched = <<>> THEN FALSE
    ELSE LET stype == Get(sched[1], "type", "none") IN
         IF stype = "every_n_days"
         THEN LET n == Get(sched[1], "n", 30)
                  offset == Get(sched[1], "offset", 0)
              IN  (day - offset) % n = 0 /\ day >= offset
         ELSE IF stype = "pay_cycle"
         THEN LET ctype == Get(user.pay_cycle, "type", "biweekly")
                  start == Get(user.pay_cycle, "start_day", 1)
                  n == IF ctype = "weekly" THEN 7
                       ELSE IF ctype = "biweekly" THEN 14
                       ELSE IF ctype = "semimonthly" THEN 15 ELSE 30
              IN  day >= start /\ (day - start) % n = 0
         ELSE FALSE

\* is_scheduled_today; the variant forgets the offset of every_n_days
is_scheduled_today_no_offset(scn, user, day) ==
    LET sched == scn.schedule IN
    IF sched = <<>> THEN FALSE
    ELSE LET stype == Get(sched[1], "type", "none") IN
         IF stype = "every_n_days" THEN day % Get(sched[1], "n", 30) = 0
         ELSE IF stype = "pay_cycle"
         THEN LET ctype == Get(user.pay_cycle, "type", "biweekly")
                  start == Get(user.pay_cycle, "start_day", 1)
              IN  IF ctype = "semimonthly"
                  THEN day = start \/ (day - start) % 15 = 0
                  ELSE LET n == IF ctype = "weekly" THEN 7
                                ELSE IF ctype = "biweekly" THEN 14 ELSE 30
                       IN  day >= start /\ (day - start) % n = 0
         ELSE FALSE
is_scheduled_today(scn, user, day) ==
    LET sched == scn.schedule IN
    IF sched = <<>> THEN FALSE
    ELSE LET stype == Get(sched[1], "type", "none") IN
         IF stype = "every_n_days"
         THEN LET n == Get(sched[1], "n", 30)
                  offset == Get(sched[1], "offset", 0)
              IN  (day - offset) % n = 0 /\ day >= offset
         ELSE IF stype = "pay_cycle"
         THEN LET ctype == Get(user.pay_cycle, "type", "biweekly")
                  start == Get(user.pay_cycle, "start_day", 1)
              IN  IF ctype = "semimonthly"
                  THEN day = start \/ (day - start) % 15 = 0
                  ELSE LET n == IF ctype = "weekly" THEN 7
                                ELSE IF ctype = "biweekly" THEN 14 ELSE 30
                       IN  day >= start /\ (day - start) % n = 0
         ELSE FALSE

\* the scan of occurred_within, from history[i] backward
RECURSIVE occurred_scan(_, _, _, _, _)
occurred_scan(history, i, scn_name, days, today) ==
    IF i = 0 THEN FALSE
    ELSE IF history[i].name = scn_name /\ today - history[i].day <= days THEN TRUE
    ELSE IF today - history[i].day > days THEN FALSE
    ELSE occurred_scan(history, i - 1, scn_name, days, today)

\* occurred_within; the variant excludes the boundary day of the window
occurred_within_exclusive(e, scn_name, days, today) ==
    IF days <= 0 THEN FALSE
    ELSE \E i \in DOMAIN e.history :
            e.history[i].name = scn_name /\ today - e.history[i].day < days
occurred_within(e, scn_name, days, today) ==
    IF days <= 0 THEN FALSE
    ELSE occurred_scan(e.history, Len(e.history), scn_name, days, today)

\* (the variant gives a tag that the table lacks the weight 0)
tag_factor_absent_zero(tags, mapping) ==
    geometric_mean([i \in DOMAIN tags |-> Get(mapping, tags[i], 0)])

tag_factor(tags, mapping) ==
    geometric_mean([i \in DOMAIN tags |-> Get(mapping, tags[i], One)])

\* k.lower() in scn["name"].lower().replace(" ", "_"), on the names and the
\* predisposition keys of the model
NameContainsKey ==
    {<<"dinner", "Dinner Out">>, <<"dinner_out", "Dinner Out">>,
     <<"lottery", "Buy Lottery Ticket">>, <<"lottery", "Lottery Result">>,
     <<"charity", "Charity Donation">>, <<"fee", "Late Fee">>,
     <<"fee", "Bank Account Fee">>}

RECURSIVE predisposition_product(_, _)
predisposition_product(items, scn) ==
    IF items = <<>> THEN One
    ELSE LET k == Head(items)[1]
             v == Head(items)[2]
             rest == predisposition_product(Tail(items), scn)
         IN  IF k \in SeqToSet(scn.tags) \/ <<k, scn.name>> \in NameContainsKey
             THEN (rest * v) \div One
             ELSE rest

IsDiscretionary(scn) == \E i \in DOMAIN scn.tags : scn.tags[i] \in DISCRETIONARY_TAGS

\* (the variant has the low-balance tier only)
balance_factor_one_tier(e, scn) ==
    IF e.balance < LowBalance /\ IsDiscretionary(scn) THEN 5 ELSE 10

balance_factor(e, scn) ==
    IF e.balance < 0 /\ IsDiscretionary(scn) THEN 2
    ELSE IF e.balance < LowBalance /\ IsDiscretionary(scn) THEN 5
    ELSE 10

UnitDetails ==
    [base |-> 0, segment |-> One, mood |-> One, predisposition |-> One,
     balance |-> 10, cooldown |-> 1]

\* min(max(x, 0.0), 0.95); the variant has no upper end
ClampLow(x) == Max(x, 0)
Clamp(x) == Min(Max(x, 0), (95 * Certain) \div 100)

\* the composition of compute_probability (the branch of a scenario that is
\* not deterministic): [p, details]; p in units of 1/Certain, the balance
\* factor in tenths, the cooldown factor 0 or 1
compose_probability(e, scn, user, today) ==
    LET base == scn.base_daily_prob
        seg_map == SEGMENTS[user.segment_key].tag_weights
        segment_factor == tag_factor(scn.tags, seg_map)
        mood_map == Get(MOODS, user.mood, EmptyDict)
        mood_factor == tag_factor(scn.tags, mood_map)
        predisposition_factor == predisposition_product(user.predispositions, scn)
        bal == balance_factor(e, scn)
        cooldown_factor ==
            IF occurred_within(e, scn.name, scn.cooldown_days, today) THEN 0 ELSE 1
        t1 == (base * segment_factor * mood_factor) \div (One * One)
        t2 == (t1 * predisposition_factor) \div One
        t3 == (t2 * bal) \div 10
    IN  [p |-> Clamp(t3 * cooldown_factor),
         details |-> [base |-> base, segment |-> segment_factor, mood |-> mood_factor,
                      predisposition |-> predisposition_factor, balance |-> bal,
                      cooldown |-> cooldown_factor]]

\* compute_probability; the variant composes a deterministic scenario too
compute_probability_nobypass(e, scn, user, today) == compose_probability(e, scn, user, today)
compute_probability(e, scn, user, today) ==
    IF scn.deterministic
    THEN [p |-> 0, details |-> UnitDetails]
    ELSE compose_probability(e, scn, user, today)

\* draw_amount_signed: the set of signed amounts a draw can give; the
\* variant leaves the magnitude unsigned
draw_amount_unsigned(e, scn, user) ==
    LET ctx == [last_pay_amount |-> e.last_pay_amount,
                default_pay_amount |-> Get(user.pay_cycle, "amount", 2000 * Dollar)]
    IN  draw_amount(scn.amount, ctx)
draw_amount_signed(e, scn, user) ==
    LET ctx == [last_pay_amount |-> e.last_pay_amount,
                default_pay_amount |-> Get(user.pay_cycle, "amount", 2000 * Dollar)]
        sign == IF scn.type = "income" THEN 1 ELSE 0 - 1
    IN  {sign * amt : amt \in draw_amount(scn.amount, ctx)}

\* instantiate_event with the amount already settled (the override amount, or
\* a member of draw_amount_signed); description stands for the text added to
\* the scenario's description
instantiate_event(scn, day, amount_signed, extra_desc) ==
    [day |-> day, scenario_id |-> scn.id, name |-> scn.name, type |-> scn.type,
     tags |-> scn.tags, deterministic |-> scn.deterministic,
     amount |-> amount_signed,
     description |-> IF extra_desc = "" THEN <<>> ELSE <<extra_desc>>]

\* ------------------------------------------------------ option builder
\* (the variant rounds the override amount to cents)
schedule_rounded(spawn, after_days, prob, override_amount, extra_desc) ==
    [spawn |-> spawn, after_days |-> after_days, prob |-> prob,
     data |-> (IF override_amount # <<>>
               THEN [override_amount |-> Round2(override_amount[1])] ELSE EmptyDict)
              @@ (IF extra_desc # "" THEN [extra_desc |-> extra_desc] ELSE EmptyDict)]

\* the inner function schedule of build_options: a trigger template;
\* override_amount is <<>> for None
schedule(spawn, after_days, prob, override_amount, extra_desc) ==
    [spawn |-> spawn, after_days |-> after_days, prob |-> prob,
     data |-> (IF override_amount # <<>>
               THEN [override_amount |-> override_amount[1]] ELSE EmptyDict)
              @@ (IF extra_desc # "" THEN [extra_desc |-> extra_desc] ELSE EmptyDict)]

\* random.choice([15, 25, 35, 45]) of the bill option skip
LateFeeChoices == {15 * Dollar, 25 * Dollar, 35 * Dollar, 45 * Dollar}

RoundOptions(opts) ==
    [i \in DOMAIN opts |-> [opts[i] EXCEPT !.amount_now = Round2(opts[i].amount_now)]]

\* the bill menu; the variant defers the remaining half without the 5%
bill_options_no_surcharge(amt, late_fee) ==
    <<[code |-> "pay_now", label |-> "Pay now", amount_now |-> amt],
      [code |-> "pay_partial", label |-> "Pay 50% now, rest later (+5%)",
       amount_now |-> MulFrac(amt, 1, 2),
       triggers |-> <<schedule("deferred_payment", 3, Certain,
                               <<MulFrac(amt, 1, 2)>>, "Deferred remainder +5%")>>],
      [code |-> "skip", label |-> "Skip (risk late fee)", amount_now |-> 0,
       triggers |-> <<schedule("late_fee_generic", 5, (9 * Certain) \div 10,
                               <<0 - late_fee>>, "Late fee")>>]>>
bill_options(amt, late_fee) ==
    <<[code |-> "pay_now", label |-> "Pay now", amount_now |-> amt],
      [code |-> "pay_partial", label |-> "Pay 50% now, rest later (+5%)",
       amount_now |-> MulFrac(amt, 1, 2),
       triggers |-> <<schedule("deferred_payment", 3, Certain,
                               <<MulFrac(amt, 21, 40)>>, "Deferred remainder +5%")>>],
      [code |-> "skip", label |-> "Skip (risk late fee)", amount_now |-> 0,
       triggers |-> <<schedule("late_fee_generic", 5, (9 * Certain) \div 10,
                               <<0 - late_fee>>, "Late fee")>>]>>

\* the lottery menu; the variant schedules one result for five tickets
lottery_options_one_result(scn) ==
    LET ticket_cost == 0 - Abs(Get(scn.amount, "value", 2 * Dollar))
        result == schedule("lottery_result", 1, Certain, <<>>, "")
    IN  <<[code |-> "skip", label |-> "Skip", amount_now |-> 0],
          [code |-> "buy_1", label |-> "Buy 1 ticket", amount_now |-> ticket_cost,
           triggers |-> <<result>>],
          [code |-> "buy_5", label |-> "Buy 5 tickets", amount_now |-> ticket_cost * 5,
           triggers |-> <<result>>]>>
lottery_options(scn) ==
    LET ticket_cost == 0 - Abs(Get(scn.amount, "value", 2 * Dollar))
        result == schedule("lottery_result", 1, Certain, <<>>, "")
    IN  <<[code |-> "skip", label |-> "Skip", amount_now |-> 0],
          [code |-> "buy_1", label |-> "Buy 1 ticket", amount_now |-> ticket_cost,
           triggers |-> <<result>>],
          [code |-> "buy_5", label |-> "Buy 5 tickets", amount_now |-> ticket_cost * 5,
           triggers |-> <<result, result, result, result, result>>]>>

\* build_options: the set of menus the call can give (the bill menu draws
\* the late fee of its skip option when it is built)
build_options(scn, proposed_amount) ==
    LET t == scn.type
        amt == proposed_amount
    IN
    CASE t = "bill" -> {RoundOptions(bill_options(amt, fee)) : fee \in LateFeeChoices}
      [] t = "expense" ->
            {RoundOptions(
             <<[code |-> "skip", label |-> "Skip", amount_now |-> 0],
               [code |-> "budget", label |-> "Budget option (~50%)",
                amount_now |-> MulFrac(amt, 1, 2)],
               [code |-> "regular", label |-> "Regular", amount_now |-> amt],
               [code |-> "splurge", label |-> "Splurge (~150%)",
                amount_now |-> MulFrac(amt, 3, 2)]>>)}
      [] t = "donation" ->
            LET base == Max(Abs(proposed_amount), 10 * Dollar) IN
            {RoundOptions(
             <<[code |-> "skip", label |-> "Skip", amount_now |-> 0],
               [code |-> "small", label |-> "Small donation",
                amount_now |-> 0 - Min(MulFrac(base, 1, 2), 50 * Dollar)],
               [code |-> "regular", label |-> "Regular donation", amount_now |-> 0 - base],
               [code |-> "large", label |-> "Large donation",
                amount_now |-> 0 - Min(base * 2, 200 * Dollar)]>>)}
      [] t = "income" ->
            {RoundOptions(
             <<[code |-> "accept", label |-> "Accept now", amount_now |-> amt],
               [code |-> "delay_1d", label |-> "Delay to tomorrow", amount_now |-> 0,
                triggers |-> <<schedule(scn.id, 1, Certain, <<amt>>, "Delayed income")>>],
               [code |-> "decline", label |-> "Decline", amount_now |-> 0]>>)}
      [] t = "saving_pledge" ->
            LET total == Get(scn.amount, "value", 500 * Dollar) IN
            {RoundOptions(
             <<[code |-> "start", label |-> "Start pledge", amount_now |-> 0,
                effects |-> [saving_pledge |-> [total |-> total]]],
               [code |-> "start_smaller", label |-> "Start smaller pledge", amount_now |-> 0,
                effects |-> [saving_pledge |-> [total |-> MulFrac(total, 4, 5)]]],
               [code |-> "start_bigger", label |-> "Start larger pledge", amount_now |-> 0,
                effects |-> [saving_pledge |-> [total |-> MulFrac(total, 6, 5)]]],
               [code |-> "decline", label |-> "Decline pledge", amount_now |-> 0]>>)}
      [] t = "lottery" -> {RoundOptions(lottery_options(scn))}
      [] OTHER ->
            IF amt >= 0
            THEN {RoundOptions(
                  <<[code |-> "accept", label |-> "Accept", amount_now |-> amt],
                    [code |-> "delay", label |-> "Delay by 1 day", amount_now |-> 0,
                     triggers |-> <<schedule(scn.id, 1, Certain, <<amt>>, "Delayed")>>],
                    [code |-> "decline", label |-> "Decline", amount_now |-> 0]>>)}
            ELSE {RoundOptions(
                  <<[code |-> "skip", label |-> "Skip", amount_now |-> 0],
                    [code |-> "regular", label |-> "Proceed", amount_now |-> amt]>>)}

\* ------------------------------------------------- triggers and delays
\* (the variant binds every key to the one new value)
DictSetShared(d, k, v) == [x \in (DOMAIN d) \cup {k} |-> v]
DictSet(d, k, v) == [x \in (DOMAIN d) \cup {k} |-> IF x = k THEN v ELSE d[x]]
DictPop(d, k) == [x \in (DOMAIN d) \ {k} |-> d[x]]

\* self.delayed_events.setdefault(due, []).append(payload)
Enqueue(e, due, payload) ==
    [e EXCEPT !.delayed_events =
        DictSet(e.delayed_events, due, Append(Get(e.delayed_events, due, <<>>), payload))]

\* (the variant drops every trigger)
schedule_trigger_dropping(e, today, trig) == {e}

\* schedule_trigger: the engines the call can leave, one per draw of random()
schedule_trigger(e, today, trig) ==
    {IF r > Get(trig, "prob", Certain) THEN e
     ELSE Enqueue(e, today + Get(trig, "after_days", 1),
                  [spawn |-> trig.spawn, data |-> Get(trig, "data", EmptyDict)])
     : r \in RandomSamples}

\* the values random.random() can return, [0, 1), on the grid of the model
Rolls == 0..(Certain - 1)

\* the three-tier lottery curve of realize_delayed: the amounts a roll r gives
lottery_amounts(r) ==
    IF r < 9210 THEN {0}
    ELSE IF r < 9210 + 790 THEN uniform(5 * Dollar, 50 * Dollar)
    ELSE uniform(1000 * Dollar, 10000 * Dollar)

lottery_desc(r) ==
    IF r < 9210 THEN "Lottery result: no win."
    ELSE IF r < 9210 + 790 THEN "Lottery result: small win."
    ELSE "Lottery result: big win!"

\* the events one payload can realize: a set of sequences of 0 or 1 event
realize_payload(e, p, today, user) ==
    LET data == Get(p, "data", EmptyDict) IN
    IF p.spawn = "lottery_result"
    THEN LET scn == by_id_get(e, "lottery_result")[1] IN
         UNION {{<<instantiate_event(scn, today, amount, lottery_desc(r))>>
                 : amount \in lottery_amounts(r)} : r \in RandomSamples}
    ELSE LET found == by_id_get(e, p.spawn) IN
         IF found = <<>> THEN {<<>>}
         ELSE LET scn == found[1]
                  amounts == IF "override_amount" \in DOMAIN data
                             THEN {data.override_amount}
                             ELSE draw_amount_signed(e, scn, user)
              IN  {<<instantiate_event(scn, today, amount, Get(data, "extra_desc", ""))>>
                   : amount \in amounts}

RECURSIVE realize_payloads(_, _, _, _)
realize_payloads(e, payloads, today, user) ==
    IF payloads = <<>> THEN {<<>>}
    ELSE {first \o rest : first \in realize_payload(e, Head(payloads), today, user),
                          rest \in realize_payloads(e, Tail(payloads), today, user)}

\* the variant pops the day's payloads and realizes none of them
realize_delayed_dropping(e, today, user) ==
    {[eng |-> [e EXCEPT !.delayed_events = DictPop(e.delayed_events, today)],
      realized |-> <<>>]}

\* the variant reads the day's payloads and leaves them in the queue
realize_delayed_keep(e, today, user) ==
    {[eng |-> e, realized |-> evs]
     : evs \in realize_payloads(e, Get(e.delayed_events, today, <<>>), today, user)}

\* the variant settles the realized events on the balance at once
realize_delayed_settling(e, today, user) ==
    {[eng |-> [e EXCEPT !.delayed_events = DictPop(e.delayed_events, today),
                        !.balance = @ + SeqSum([i \in DOMAIN evs |-> evs[i].amount])],
      realized |-> evs]
     : evs \in realize_payloads(e, Get(e.delayed_events, today, <<>>), today, user)}

\* realize_delayed: the outcomes [eng, realized]; the day's payloads are popped
realize_delayed(e, today, user) ==
    {[eng |-> [e EXCEPT !.delayed_events = DictPop(e.delayed_events, today)],
      realized |-> evs]
     : evs \in realize_payloads(e, Get(e.delayed_events, today, <<>>), today, user)}

\* --------------------------------------------------- savings-plan ledger
remaining(plan) == Max(plan.total - plan.contributed, 0)

add_saving_plan(e, name, total, start_day, due_in_days, frequency) ==
    [e EXCEPT !.active_saving_plans =
        Append(e.active_saving_plans,
               [name |-> name, total |-> total, start_day |-> start_day,
                due_day |-> start_day + due_in_days, frequency |-> frequency,
                contributed |-> 0])]

\* the variant keeps contributing after the plan's due day
plan_is_due_past_due_day(plan, today) ==
    /\ ~(remaining(plan) <= 0)
    /\ \/ plan.frequency = "daily"
       \/ (today - plan.start_day) >= 0 /\ (today - plan.start_day) % 7 = 0

plan_is_due(plan, today) ==
    /\ ~(remaining(plan) <= 0 \/ today > plan.due_day)
    /\ \/ plan.frequency = "daily"
       \/ (today - plan.start_day) >= 0 /\ (today - plan.start_day) % 7 = 0

\* (the variant always contributes the minimum of 5)
plan_contrib_minimum_only(plan, today) == Min(5 * Dollar, remaining(plan))

\* (the variant has no minimum contribution)
plan_contrib_no_minimum(plan, today) ==
    LET remaining_days == Max(plan.due_day - today, 1)
        increments == IF plan.frequency = "daily" THEN 1 ELSE Max(1, remaining_days \div 7)
    IN  Min(remaining(plan) \div increments, remaining(plan))

\* the contribution of a due plan (remaining / increments in fixed point)
plan_contrib(plan, today) ==
    LET remaining_days == Max(plan.due_day - today, 1)
        increments == IF plan.frequency = "daily" THEN 1 ELSE Max(1, remaining_days \div 7)
        contrib == Max(remaining(plan) \div increments, 5 * Dollar)
    IN  Min(contrib, remaining(plan))

\* contributions_today: [eng, out]; every due plan's contributed grows
contributions_today(e, today) ==
    LET plans == e.active_saving_plans
        due == {i \in DOMAIN plans : plan_is_due(plans[i], today)}
        scn == by_id_get(e, "saving_contribution")[1]
        ev(i) == [instantiate_event(scn, today, 0 - plan_contrib(plans[i], today), "")
                  EXCEPT !.description = <<"Auto-contribution to", plans[i].name>>]
        RECURSIVE collect(_)
        collect(i) == IF i > Len(plans) THEN <<>>
                      ELSE (IF i \in due THEN <<ev(i)>> ELSE <<>>) \o collect(i + 1)
    IN  [eng |-> [e EXCEPT !.active_saving_plans =
                    [i \in DOMAIN plans |->
                        IF i \in due
                        THEN [plans[i] EXCEPT !.contributed = @ + plan_contrib(plans[i], today)]
                        ELSE plans[i]]],
         out |-> collect(1)]

\* ----------------------------------------------------- scheduler (propose)
\* the offer built by propose_day for a scenario with a menu
menu_offer(scn, day, amount, options, deterministic, probability, prob_details) ==
    [day |-> day, scenario_id |-> scn.id, name |-> scn.name, type |-> scn.type,
     tags |-> scn.tags, deterministic |-> deterministic, proposed_amount |-> amount,
     probability |-> probability, prob_details |-> prob_details, options |-> options]

\* (the variant gives the forced offer a second option)
forced_offer_with_skip(ev, day, label, prob_details) ==
    [day |-> day, scenario_id |-> ev.scenario_id, name |-> ev.name, type |-> ev.type,
     tags |-> ev.tags, deterministic |-> TRUE, proposed_amount |-> ev.amount,
     probability |-> Certain, prob_details |-> prob_details,
     options |-> <<[code |-> "forced", label |-> label, amount_now |-> ev.amount],
                   [code |-> "skip", label |-> "Skip", amount_now |-> 0]>>,
     internal_forced_event |-> ev]

\* the forced offer built by propose_day around an event
forced_offer(ev, day, label, prob_details) ==
    [day |-> day, scenario_id |-> ev.scenario_id, name |-> ev.name, type |-> ev.type,
     tags |-> ev.tags, deterministic |-> TRUE, proposed_amount |-> ev.amount,
     probability |-> Certain, prob_details |-> prob_details,
     options |-> <<[code |-> "forced", label |-> label, amount_now |-> ev.amount]>>,
     internal_forced_event |-> ev]

\* the menus of a scenario over its possible amounts: a set of <<amount, menu>>
amount_and_menu(scn, amounts) ==
    UNION {{<<a, opts>> : opts \in build_options(scn, a)} : a \in amounts}

\* the deterministic-schedule loop of propose_day from catalog[i] on: the
\* outcomes [eng, offers]
RECURSIVE scheduled_from(_, _, _, _)
scheduled_from(e, user, day, i) ==
    IF i > Len(e.catalog) THEN {[eng |-> e, offers |-> <<>>]}
    ELSE LET scn == e.catalog[i] IN
         IF scn.deterministic /\ is_scheduled_today(scn, user, day)
         THEN LET paycheck == scn.name = "Paycheck"
                  amt == Get(user.pay_cycle, "amount", 2000 * Dollar)
                  e2 == IF paycheck THEN [e EXCEPT !.last_pay_amount = amt] ELSE e
                  amounts == IF paycheck THEN {amt} ELSE draw_amount_signed(e, scn, user)
              IN  {[eng |-> rest.eng,
                    offers |-> <<menu_offer(scn, day, am[1], am[2], TRUE, Certain,
                                            [deterministic |-> "schedule"])>> \o rest.offers]
                   : am \in amount_and_menu(scn, amounts),
                     rest \in scheduled_from(e2, user, day, i + 1)}
         ELSE scheduled_from(e, user, day, i + 1)

\* the candidates of the probabilistic pool, in catalog order
RECURSIVE prob_pool_from(_, _, _, _)
prob_pool_from(e, user, day, i) ==
    IF i > Len(e.catalog) THEN <<>>
    ELSE LET scn == e.catalog[i]
             pd == compute_probability(e, scn, user, day)
         IN  (IF ~scn.deterministic /\ pd.p > 0
              THEN <<[scn |-> scn, p |-> pd.p, details |-> pd.details]>> ELSE <<>>)
             \o prob_pool_from(e, user, day, i + 1)

\* prob_pool.sort(key=p, reverse=True): stable, descending
RECURSIVE InsertDesc(_, _)
InsertDesc(sorted, c) ==
    IF sorted = <<>> THEN <<c>>
    ELSE IF Head(sorted).p >= c.p THEN <<Head(sorted)>> \o InsertDesc(Tail(sorted), c)
    ELSE <<c>> \o sorted

RECURSIVE SortDesc(_)
SortDesc(pool) ==
    IF pool = <<>> THEN <<>>
    ELSE InsertDesc(SortDesc(SubSeq(pool, 1, Len(pool) - 1)), pool[Len(pool)])

sorted_pool(e, user, day) == SortDesc(prob_pool_from(e, user, day, 1))

\* len(chosen) >= max_probabilistic; the variant stops one acceptance late
cap_reached_late(chosen, max_probabilistic) == chosen > max_probabilistic
cap_reached(chosen, max_probabilistic) == chosen >= max_probabilistic

\* the Bernoulli loop of propose_day from pool[i] on, chosen offers accepted
\* so far: the outcomes [offers, trials] (trials: the candidates tried, in
\* order, with the result of each trial)

RECURSIVE trials_from(_, _, _, _, _, _, _)
trials_from(e, user, day, pool, i, chosen, max_probabilistic) ==
    IF i > Len(pool) \/ cap_reached(chosen, max_probabilistic)
    THEN {[offers |-> <<>>, trials |-> <<>>]}
    ELSE LET c == pool[i]
             hit == UNION {
                 {[offers |-> <<menu_offer(c.scn, day, am[1], am[2], FALSE, c.p, c.details)>>
                               \o rest.offers,
                   trials |-> <<[name |-> c.scn.name, p |-> c.p, accepted |-> TRUE]>>
                               \o rest.trials]
                  : rest \in trials_from(e, user, day, pool, i + 1, chosen + 1,
                                         max_probabilistic)}
                 : am \in amount_and_menu(c.scn, draw_amount_signed(e, c.scn, user))}
             miss == {[offers |-> rest.offers,
                       trials |-> <<[name |-> c.scn.name, p |-> c.p, accepted |-> FALSE]>>
                                   \o rest.trials]
                      : rest \in trials_from(e, user, day, pool, i + 1, chosen,
                                             max_probabilistic)}
         IN  UNION {IF r < c.p THEN hit ELSE miss : r \in RandomSamples}

\* (the variant returns the offers in reverse order)
WithOfferIdsReversed(offers, day) ==
    [i \in DOMAIN offers |-> [offer_id |-> <<day, i>>] @@ offers[Len(offers) + 1 - i]]

WithOfferIds(offers, day) ==
    [i \in DOMAIN offers |-> [offer_id |-> <<day, i>>] @@ offers[i]]

\* propose_day: the outcomes [eng, ret, trials]; ret is the list of offers
propose_day(e0, user, day, max_probabilistic) ==
    LET e1 == [e0 EXCEPT !.user = <<user>>] IN
    UNION {
      UNION {
        LET e3 == sch.eng
            ct == contributions_today(e3, day)
            forced1 == [i \in DOMAIN rd.realized |->
                          forced_offer(rd.realized[i], day, "Forced", [forced |-> "triggered"])]
            forced2 == [i \in DOMAIN ct.out |->
                          forced_offer(ct.out[i], day, "Scheduled contribution",
                                       [plan |-> "auto"])]
        IN  {LET offers == WithOfferIds(forced1 \o sch.offers \o tr.offers \o forced2, day)
             IN  [eng |-> [ct.eng EXCEPT !.pending_offers = DictSet(@, day, offers)],
                  ret |-> offers, trials |-> tr.trials]
             : tr \in trials_from(e3, user, day, sorted_pool(e3, user, day), 1, 0,
                                  max_probabilistic)}
        : sch \in scheduled_from(rd.eng, user, day, 1)}
      : rd \in realize_delayed(e1, day, user)}

\* -------------------------------------------------------- commit pipeline
\* the triggers of the picked option, scheduled in order: the engines left
RECURSIVE schedule_triggers(_, _, _)
schedule_triggers(e, today, triggers) ==
    IF triggers = <<>> THEN {e}
    ELSE UNION {schedule_triggers(e2, today, Tail(triggers))
                : e2 \in schedule_trigger(e, today, Head(triggers))}

\* next((o for o in options if o["code"] == opt_code), options[0]); the
\* variant falls back to the last option
pick_last(options, opt_code) ==
    LET hits == {i \in DOMAIN options : options[i].code = opt_code}
    IN  IF hits = {} THEN options[Len(options)] ELSE options[CHOOSE i \in hits : \A j \in hits : j <= i]
\* the variant ignores the supplied code
pick_first(options, opt_code) == options[1]
pick(options, opt_code) ==
    LET hits == {i \in DOMAIN options : options[i].code = opt_code}
    IN  IF hits = {} THEN options[1] ELSE options[CHOOSE i \in hits : \A j \in hits : i <= j]

\* the variant stamps the event with the day after
committed_event_next_day(offer, day, picked) ==
    [day |-> day + 1, scenario_id |-> offer.scenario_id, name |-> offer.name,
     type |-> offer.type, tags |-> offer.tags, deterministic |-> offer.deterministic,
     proposed_amount |-> offer.proposed_amount, amount |-> picked.amount_now,
     chosen_option |-> picked.code, chosen_label |-> picked.label,
     probability |-> offer.probability, prob_details |-> offer.prob_details]

\* the event commit_day builds for a picked option
committed_event(offer, day, picked) ==
    [day |-> day, scenario_id |-> offer.scenario_id, name |-> offer.name,
     type |-> offer.type, tags |-> offer.tags, deterministic |-> offer.deterministic,
     proposed_amount |-> offer.proposed_amount, amount |-> picked.amount_now,
     chosen_option |-> picked.code, chosen_label |-> picked.label,
     probability |-> offer.probability, prob_details |-> offer.prob_details]

\* the forced path of commit_day: the embedded event, completed
forced_event(offer) ==
    [chosen_option |-> "forced", proposed_amount |-> offer.proposed_amount,
     probability |-> offer.probability, prob_details |-> offer.prob_details]
    @@ offer.internal_forced_event

\* the effects of the picked option
apply_effects(e, day, ev, picked) ==
    LET effects == Get(picked, "effects", EmptyDict) IN
    IF "saving_pledge" \in DOMAIN effects
    THEN add_saving_plan(e, ev.name, Get(effects.saving_pledge, "total", 500 * Dollar),
                         day, 90, "weekly")
    ELSE e

\* the loop of commit_day from offers[i] on: the outcomes [eng, committed]
RECURSIVE commit_from(_, _, _, _, _)
commit_from(e, day, offers, i, choices) ==
    IF i > Len(offers) THEN {[eng |-> e, committed |-> <<>>]}
    ELSE LET offer == offers[i]
             opt_code == Get(choices, offer.offer_id, offer.options[1].code)
         IN
         IF opt_code = "forced" /\ "internal_forced_event" \in DOMAIN offer
         THEN LET ev == forced_event(offer)
                  e2 == [e EXCEPT !.balance = @ + ev.amount, !.history = Append(@, ev)]
              IN  {[eng |-> rest.eng, committed |-> <<ev>> \o rest.committed]
                   : rest \in commit_from(e2, day, offers, i + 1, choices)}
         ELSE LET picked == pick(offer.options, opt_code)
                  ev == committed_event(offer, day, picked)
                  e2 == [e EXCEPT !.balance = @ + ev.amount,
                                  !.last_pay_amount =
                                      IF ev.name = "Paycheck" THEN ev.amount ELSE @,
                                  !.history = Append(@, ev)]
              IN  UNION {
                    {[eng |-> rest.eng, committed |-> <<ev>> \o rest.committed]
                     : rest \in commit_from(apply_effects(e3, day, ev, picked), day,
                                            offers, i + 1, choices)}
                    : e3 \in schedule_triggers(e2, day, Get(picked, "triggers", <<>>))}

\* the variant settles the proposed amounts instead of the chosen ones
commit_day_settling_proposed(e, day, choices) ==
    LET offers == Get(e.pending_offers, day, <<>>)
        e1 == [e EXCEPT !.pending_offers = DictPop(@, day)]
    IN  {[eng |-> [out.eng EXCEPT !.balance =
                      e.balance + SeqSum([i \in DOMAIN out.committed |->
                                             out.committed[i].proposed_amount])],
          ret |-> out.committed]
         : out \in commit_from(e1, day, offers, 1, choices)}

\* the variant puts the day's events in front of history
commit_day_prepending(e, day, choices) ==
    LET offers == Get(e.pending_offers, day, <<>>)
        e1 == [e EXCEPT !.pending_offers = DictPop(@, day)]
    IN  {[eng |-> [out.eng EXCEPT !.history = out.committed \o e.history],
          ret |-> out.committed]
         : out \in commit_from(e1, day, offers, 1, choices)}

\* the variant starts history afresh with the day's events
commit_day_fresh_history(e, day, choices) ==
    LET offers == Get(e.pending_offers, day, <<>>)
        e1 == [e EXCEPT !.pending_offers = DictPop(@, day)]
    IN  {[eng |-> [out.eng EXCEPT !.history = out.committed], ret |-> out.committed]
         : out \in commit_from(e1, day, offers, 1, choices)}

\* the variant reads the day's pending offers and leaves them stored
commit_day_keeping_pending(e, day, choices) ==
    LET offers == Get(e.pending_offers, day, <<>>)
    IN  {[eng |-> out.eng, ret |-> out.committed]
         : out \in commit_from(e, day, offers, 1, choices)}

\* commit_day: the outcomes [eng, ret]; ret is the list of committed events
commit_day(e, day, choices) ==
    LET offers == Get(e.pending_offers, day, <<>>)
        e1 == [e EXCEPT !.pending_offers = DictPop(@, day)]
    IN  {[eng |-> out.eng, ret |-> out.committed]
         : out \in commit_from(e1, day, offers, 1, choices)}

\* ------------------------------------------------------- catalog (data)
\* scenario_dict; schedule is <<>> for None, id stands for fixed_id or the uid
scenario_dict(name, scenario_type, tags, amount_spec, base_daily_prob, deterministic, schedule_spec, cooldown_days, triggers, id) ==
    [id |-> id, name |-> name, type |-> scenario_type, tags |-> tags,
     amount |-> amount_spec, base_daily_prob |-> base_daily_prob,
     deterministic |-> deterministic, schedule |-> schedule_spec,
     cooldown_days |-> cooldown_days, triggers |-> triggers]

\* entries of build_default_catalog
Paycheck ==
    scenario_dict("Paycheck", "income", <<"salary", "recurring">>,
                  [dist |-> "fixed", value |-> 2000 * Dollar], 0, TRUE,
                  <<[type |-> "pay_cycle"]>>, 0, <<>>, "scn_paycheck")
DinnerOut ==
    scenario_dict("Dinner Out", "expense", <<"dining", "leisure">>,
                  [dist |-> "uniform", low |-> 15 * Dollar, high |-> 35 * Dollar],
                  1200, FALSE, <<>>, 1, <<>>, "scn_dinner_out")
StreamingMovieRental ==
    scenario_dict("Streaming Movie Rental", "expense", <<"entertainment", "leisure">>,
                  [dist |-> "choice", options |-> <<4 * Dollar, 6 * Dollar>>],
                  600, FALSE, <<>>, 1, <<>>, "scn_streaming_movie_rental")
OverdraftFee ==
    scenario_dict("Overdraft Fee", "expense", <<"fees">>,
                  [dist |-> "fixed", value |-> 35 * Dollar], 50, FALSE, <<>>, 10, <<>>,
                  "scn_overdraft_fee")
BankAccountFee ==
    scenario_dict("Bank Account Fee", "expense", <<"fees">>,
                  [dist |-> "choice", options |-> <<5 * Dollar, 10 * Dollar, 15 * Dollar>>],
                  100, FALSE, <<>>, 10, <<>>, "scn_bank_account_fee")
CharityDonation ==
    scenario_dict("Charity Donation", "donation", <<"donation">>,
                  [dist |-> "choice",
                   options |-> <<10 * Dollar, 25 * Dollar, 50 * Dollar, 100 * Dollar>>],
                  200, FALSE, <<>>, 7, <<>>, "scn_charity_donation")
BuyLotteryTicket ==
    scenario_dict("Buy Lottery Ticket", "lottery", <<"gambling">>,
                  [dist |-> "fixed", value |-> 2 * Dollar], 300, FALSE, <<>>, 0,
                  <<[spawn |-> "lottery_result", after_days |-> 1, prob |-> Certain]>>,
                  "scn_buy_lottery_ticket")
\* the same entry in a catalog that lets a player buy once a week
WeeklyLotteryTicket == [BuyLotteryTicket EXCEPT !.cooldown_days = 7]
LotteryResult ==
    scenario_dict("Lottery Result", "income", <<"gambling", "windfall">>,
                  [dist |-> "choice", options |-> <<0>>], 0, FALSE, <<>>, 0, <<>>,
                  "lottery_result")
EmergencyFundPledge ==
    scenario_dict("Start Emergency Fund Pledge", "saving_pledge", <<"savings">>,
                  [dist |-> "fixed", value |-> 500 * Dollar], 100, FALSE, <<>>, 45,
                  <<[spawn |-> "saving_contribution", after_days |-> 1, prob |-> Certain,
                     data |-> [frequency |-> "weekly"]]>>,
                  "scn_emergency_fund_pledge")
\* a catalog entry without tags (scenario_dict takes any list of tags)
ServiceCharge ==
    scenario_dict("Service Charge", "expense", <<>>,
                  [dist |-> "fixed", value |-> 5 * Dollar], 100, FALSE, <<>>, 0, <<>>,
                  "scn_service_charge")
\* the pledge as a catalog folder can hold it, offered once a year at most
YearlyPledge == [EmergencyFundPledge EXCEPT !.cooldown_days = 365]
SavingContribution ==
    scenario_dict("Saving Plan Contribution", "expense", <<"savings">>,
                  [dist |-> "choice", options |-> <<0>>], 0, FALSE, <<>>, 0, <<>>,
                  "saving_contribution")
DeferredPayment ==
    scenario_dict("Deferred Payment Due", "bill", <<"fees", "debt">>,
                  [dist |-> "fixed", value |-> 0], 0, FALSE, <<>>, 0, <<>>,
                  "deferred_payment")
LateFee ==
    scenario_dict("Late Fee", "expense", <<"fees">>,
                  [dist |-> "choice",
                   options |-> <<15 * Dollar, 25 * Dollar, 35 * Dollar, 45 * Dollar>>],
                  0, FALSE, <<>>, 0, <<>>, "late_fee_generic")

\* a recurring monthly bill as build_default_catalog makes them (lognormal
\* around avg, sigma 0.2 avg, min max(0.5 avg, 5)), due on day 1, 31, 61, ...
MonthlyBill(name, tags, avg, offset, id) ==
    scenario_dict(name, "bill", tags \o <<"recurring">>,
                  [dist |-> "lognormal", mean |-> avg, sigma |-> avg \div 5,
                   min |-> Max(avg \div 2, 5 * Dollar)],
                  0, TRUE, <<[type |-> "every_n_days", n |-> 30, offset |-> offset]>>,
                  0, <<>>, id)
\* such a bill of a catalog folder: 200 on average, due on day 1
UtilityBill == MonthlyBill("Utility Bill", <<"utilities">>, 200 * Dollar, 1, "scn_utility_bill")
\* the same bill on another schedule
EveryNDays(n, offset) ==
    [UtilityBill EXCEPT !.schedule = <<[type |-> "every_n_days", n |-> n, offset |-> offset]>>]

\* the reserved entries of build_default_catalog, by id
base_by_id ==
    [saving_contribution |-> SavingContribution, lottery_result |-> LotteryResult,
     deferred_payment |-> DeferredPayment, late_fee_generic |-> LateFee]

needed == <<"saving_contribution", "lottery_result", "deferred_payment", "late_fee_generic">>

\* ScenarioSelectorChoices.__init__: the engine after construction; the
\* reserved ids the catalog lacks are appended to it (catalog.append on the
\* list the caller passed: self.catalog is that same list object, so the
\* field catalog is also the content of the caller's list from then on)
\* (the variant injects nothing)
inject_nothing(catalog, i) == catalog

RECURSIVE inject(_, _)
inject(catalog, i) ==
    IF i > Len(needed) THEN catalog
    ELSE inject(IF \E j \in DOMAIN catalog : catalog[j].id = needed[i]
                THEN catalog ELSE Append(catalog, base_by_id[needed[i]]), i + 1)

ScenarioSelectorChoices(catalog) ==
    [catalog |-> inject(catalog, 1), history |-> <<>>, pending_offers |-> EmptyDict,
     active_saving_plans |-> <<>>, delayed_events |-> EmptyDict, day |-> 0,
     balance |-> 0, last_pay_amount |-> 2000 * Dollar, user |-> <<>>]

\* ------------------------------------------------------------- profiles
\* UserProfile; predispositions is the dict as a list of <<key, value>>
UserProfile(name, segment_key, mood, pay_cycle, predispositions, base_balance) ==
    [name |-> name, segment_key |-> segment_key, mood |-> mood, pay_cycle |-> pay_cycle,
     predispositions |-> predispositions, base_balance |-> base_balance]

\* the profile a StartRequest with default fields gives, pay cycle aside
DefaultUser(pay_type, pay_start_day) ==
    UserProfile("Player", "early_career", "optimistic",
                [type |-> pay_type, start_day |-> pay_start_day, amount |-> 2200 * Dollar],
                <<>>, 1500 * Dollar)

\* ------------------------------------------------------------- bounds
\* the last day a session commits: with scheduled scenarios, with one
\* probabilistic scenario, with the lottery, with the savings pledge
MaxDay == 7
MaxDayPool == 3
MaxDayLottery == 1
MaxDayPlan == 9
\* the days of the directly driven engine, and the calls made on it (long
\* runs on a catalog of two, short runs, and runs on a pool of three)
MaxEngineDay == 2
MaxCalls == 4
MaxCallsShort == 2
MaxCallsPool == 1
\* the entries a choice map holds at most (in the long runs of the engine)
MaxChoiceEntries == 2
MaxChoiceEntriesLong == 1
\* the calls made on an engine that is driven on chosen days
MaxCallsDays == 4
\* the calls made on an engine that is driven on the day a pledge starts
MaxCallsLedger == 5
\* the sessions a deployment holds, and the last day each of them commits
MaxSessions == 2
MaxDaySessions == 2
\* the last day of a session that sees a pledge through to its due day
MaxDayFunding == 92
\* the helpers called on their own: the days is_scheduled_today is asked
\* about, the days and the number of calls of contributions_today
MaxScheduleDay == 46
MaxContributionDay == 15
MaxCallsContributions == 2

\* ------------------------------------------------------------- state
VARIABLES
    env,        \* the deployment: CATALOG as loaded by app.py, the profile sent to start
    SESSIONS,   \* app.py SESSIONS: session id -> SessionState
    selector,   \* an engine driven directly through propose_day / commit_day
    calls,      \* the number of direct calls made on selector
    last        \* the last request or call, its arguments and its result

vars == <<env, SESSIONS, selector, calls, last>>

NoEngine == [catalog |-> <<>>]

\* the choice maps a caller can send for a list of offers: per offer no
\* entry, one of its codes, or a code that is not in its menu
\* (the player of a long session keeps to the codes of the menus)
OfferCodes(offer) ==
    {offer.options[i].code : i \in DOMAIN offer.options}
    \cup (IF Get(env, "menu_only", FALSE) THEN {} ELSE {"bogus"})

RECURSIVE choice_maps(_, _, _)
choice_maps(offers, i, room) ==
    IF i > Len(offers) THEN {EmptyDict}
    ELSE LET without == choice_maps(offers, i + 1, room) IN
         IF room = 0 THEN without
         ELSE without \cup
              {(offers[i].offer_id :> c) @@ m
               : c \in OfferCodes(offers[i]), m \in choice_maps(offers, i + 1, room - 1)}

ChoiceMaps(offers) == choice_maps(offers, 1, Get(env, "max_entries", MaxChoiceEntries))

\* ------------------------------------------------------ session layer
\* SessionState.__init__ (the HUD fields, which the engine never reads, are
\* left out): the outcomes [state, trials]
SessionState(user, catalog) ==
    {[state |-> [user |-> user, selector |-> out.eng, day |-> 1, offers |-> out.ret],
      trials |-> out.trials]
     : out \in propose_day(ScenarioSelectorChoices(catalog), user, 1, 6)}

\* POST /api/start
Start(sid) ==
    /\ sid \notin DOMAIN SESSIONS
    /\ \E out \in SessionState(env.user, env.catalog) :
          /\ SESSIONS' = DictSet(SESSIONS, sid, out.state)
          /\ last' = [op |-> "start", sid |-> sid, trials |-> out.trials,
                      ret |-> [session_id |-> sid, day |-> out.state.day,
                               balance |-> out.state.selector.balance,
                               offers |-> out.state.offers]]
    /\ UNCHANGED <<env, selector, calls>>

\* POST /api/commit for a known session
Commit(sid) ==
    /\ sid \in DOMAIN SESSIONS
    /\ SESSIONS[sid].day <= env.max_day
    /\ LET state == SESSIONS[sid] IN
       \E choices \in ChoiceMaps(state.offers) :
       \E c \in commit_day(state.selector, state.day, choices) :
       \E pr \in propose_day(c.eng, state.user, state.day + 1, 6) :
          /\ SESSIONS' = DictSet(SESSIONS, sid,
                                 [state EXCEPT !.selector = pr.eng, !.day = state.day + 1,
                                               !.offers = pr.ret])
          /\ last' = [op |-> "commit", sid |-> sid, day |-> state.day, choices |-> choices,
                      trials |-> pr.trials,
                      ret |-> [committed |-> c.ret, balance |-> pr.eng.balance,
                               day |-> state.day + 1, next_offers |-> pr.ret]]
    /\ UNCHANGED <<env, selector, calls>>

\* the session ids a request can name; start draws an unused one (uuid4)
SessionIds == 1..MaxSessions

\* state.selector.history[-100:]
LastEntries(history, n) ==
    IF Len(history) <= n THEN history
    ELSE SubSeq(history, Len(history) - n + 1, Len(history))

\* raise HTTPException(status_code=404): the variant starts a session for
\* the id instead
NotFoundStarts(request, sid) ==
    /\ sid \notin DOMAIN SESSIONS
    /\ \E out \in SessionState(env.user, env.catalog) :
          SESSIONS' = DictSet(SESSIONS, sid, out.state)
    /\ last' = [op |-> "not_found", request |-> request, sid |-> sid, status |-> 404]
    /\ UNCHANGED <<env, selector, calls>>

NotFound(request, sid) ==
    /\ sid \notin DOMAIN SESSIONS
    /\ last' = [op |-> "not_found", request |-> request, sid |-> sid, status |-> 404]
    /\ UNCHANGED <<env, SESSIONS, selector, calls>>

\* GET /api/offers
get_offers(sid) ==
    \/ NotFound("offers", sid)
    \/ /\ sid \in DOMAIN SESSIONS
       /\ last' = [op |-> "offers", sid |-> sid,
                   ret |-> [day |-> SESSIONS[sid].day,
                            balance |-> SESSIONS[sid].selector.balance,
                            offers |-> SESSIONS[sid].offers]]
       /\ UNCHANGED <<env, SESSIONS, selector, calls>>

\* POST /api/commit
commit(sid) == NotFound("commit", sid) \/ Commit(sid)

\* GET /api/state
get_state(sid) ==
    \/ NotFound("state", sid)
    \/ /\ sid \in DOMAIN SESSIONS
       /\ last' = [op |-> "state", sid |-> sid,
                   ret |-> [day |-> SESSIONS[sid].day,
                            balance |-> SESSIONS[sid].selector.balance,
                            history |-> LastEntries(SESSIONS[sid].selector.history, 100)]]
       /\ UNCHANGED <<env, SESSIONS, selector, calls>>

\* ------------------------------------------------ directly driven engine
\* the days the caller passes: the first days, or the days of the world
EngineDays == Get(env, "days", 1..MaxEngineDay)

EnginePropose ==
    /\ calls < env.max_calls
    /\ \E day \in EngineDays, k \in env.caps :
       \E out \in propose_day(selector, env.user, day, k) :
          /\ selector' = out.eng
          /\ last' = [op |-> "propose_day", day |-> day, max_probabilistic |-> k,
                      trials |-> out.trials, ret |-> out.ret]
    /\ calls' = calls + 1
    /\ UNCHANGED <<env, SESSIONS>>

EngineCommit ==
    /\ calls < env.max_calls
    /\ \E day \in EngineDays :
       \E choices \in ChoiceMaps(Get(selector.pending_offers, day, <<>>)) :
       \E out \in commit_day(selector, day, choices) :
          /\ selector' = out.eng
          /\ last' = [op |-> "commit_day", day |-> day, ret |-> out.ret]
    /\ calls' = calls + 1
    /\ UNCHANGED <<env, SESSIONS>>

\* ---------------------------------------------------- helpers on their own
\* is_scheduled_today(scn, user, day) for a scenario and a profile
CallIsScheduledToday ==
    /\ env.kind = "schedule"
    /\ \E day \in 0..MaxScheduleDay :
          last' = [op |-> "is_scheduled_today", day |-> day,
                   ret |-> is_scheduled_today(env.scn, env.user, day)]
    /\ UNCHANGED <<env, SESSIONS, selector, calls>>

\* compute_probability(scn, user, today) on an engine with some balance
CallComputeProbability ==
    /\ env.kind = "probability"
    /\ \E i \in DOMAIN selector.catalog, today \in 1..2 :
          last' = [op |-> "compute_probability", scn |-> selector.catalog[i],
                   today |-> today,
                   ret |-> compute_probability(selector, selector.catalog[i], env.user, today)]
    /\ UNCHANGED <<env, SESSIONS, selector, calls>>

\* contributions_today(today) on an engine with a plan
CallContributionsToday ==
    /\ env.kind = "plan"
    /\ calls < MaxCallsContributions
    /\ \E today \in 1..MaxContributionDay :
          LET ct == contributions_today(selector, today) IN
          /\ selector' = ct.eng
          /\ last' = [op |-> "contributions_today", today |-> today, ret |-> ct.out]
    /\ calls' = calls + 1
    /\ UNCHANGED <<env, SESSIONS>>

\* ------------------------------------------------------ specifications
World(catalog, user, max_day) == [catalog |-> catalog, user |-> user, max_day |-> max_day]

\* a profile with a very large and a negative predisposition multiplier
PredisposedUser ==
    UserProfile("Player", "early_career", "optimistic",
                [type |-> "biweekly", start_day |-> 1, amount |-> 2200 * Dollar],
                <<<<"leisure", 50 * One>>, <<"fees", 0 - 2 * One>>>>, 1500 * Dollar)

\* a StartRequest whose pay_amount is not a whole number of cents (2200.004)
SubCentPayUser ==
    UserProfile("Player", "early_career", "optimistic",
                [type |-> "weekly", start_day |-> 1, amount |-> 2200 * Dollar + 40],
                <<>>, 1500 * Dollar)

SessionWorlds ==
    {World(<<Paycheck, UtilityBill>>, DefaultUser("weekly", 1), MaxDay),
     World(<<Paycheck>>, SubCentPayUser, MaxDayPool),
     World(<<Paycheck>>, DefaultUser("semimonthly", 16), MaxDayPool),
     World(<<Paycheck>>, DefaultUser("biweekly", 2), MaxDay),
     World(<<DinnerOut>>, DefaultUser("biweekly", 1), MaxDayPool),
     World(<<CharityDonation>>, DefaultUser("biweekly", 1), MaxDayPool),
     World(<<WeeklyLotteryTicket, LotteryResult>>, DefaultUser("biweekly", 1), MaxDayLottery),
     World(<<EmergencyFundPledge, SavingContribution>>, DefaultUser("biweekly", 1), MaxDayPlan)}

\* the engine's worlds add the caps (max_probabilistic) the caller passes
EngineWorld(catalog, user, caps, max_calls, max_entries) ==
    [catalog |-> catalog, user |-> user, max_day |-> MaxEngineDay, caps |-> caps,
     max_calls |-> max_calls, max_entries |-> max_entries]

EngineWorlds ==
    {EngineWorld(<<OverdraftFee, StreamingMovieRental, BankAccountFee>>,
                 DefaultUser("biweekly", 1), {0, 1, 2, 6}, MaxCallsPool, MaxChoiceEntries),
     EngineWorld(<<OverdraftFee, StreamingMovieRental>>, PredisposedUser, {6},
                 MaxCallsShort, MaxChoiceEntries),
     EngineWorld(<<BuyLotteryTicket, LotteryResult>>, DefaultUser("biweekly", 1), {6},
                 MaxCallsShort, MaxChoiceEntries)}

EngineLongWorlds ==
    {EngineWorld(<<OverdraftFee, StreamingMovieRental>>, DefaultUser("biweekly", 1), {6},
                 MaxCalls, MaxChoiceEntriesLong)}

\* engines driven on chosen days: a pledge, its start day, the last
\* contribution day before the due day (1 + 84) and a day after it; a
\* paycheck and a bill, the days their delayed payloads fall due; a paycheck
\* whose delayed re-spawn meets a bill and a probabilistic expense; a pledge
\* taken and contributed to on its first day, which is proposed again
EngineDaysWorld(catalog, user, days, max_calls, max_entries) ==
    [days |-> days] @@ EngineWorld(catalog, user, {6}, max_calls, max_entries)

EngineDaysWorlds ==
    {EngineDaysWorld(<<EmergencyFundPledge, SavingContribution>>, DefaultUser("biweekly", 1),
                     {1, 85, 92}, MaxCallsDays, MaxChoiceEntriesLong),
     EngineDaysWorld(<<Paycheck, UtilityBill>>, DefaultUser("weekly", 1),
                     {1, 2, 4}, MaxCallsDays, MaxChoiceEntries),
     EngineDaysWorld(<<StreamingMovieRental, Paycheck, EveryNDays(30, 2)>>,
                     DefaultUser("weekly", 1), {1, 2}, MaxCallsDays, MaxChoiceEntriesLong),
     EngineDaysWorld(<<EmergencyFundPledge, SavingContribution>>, DefaultUser("biweekly", 1),
                     {1}, MaxCallsLedger, MaxChoiceEntriesLong)}

\* a deployment with several sessions of one profile
SessionsWorlds == {World(<<Paycheck>>, DefaultUser("weekly", 1), MaxDaySessions)}

\* the inputs of the helpers called on their own: schedules and pay cycles,
\* balances around 0 and the low-balance threshold, plans of either
\* frequency with totals around the minimum contribution
ScheduleWorlds ==
    {[kind |-> "schedule", scn |-> Paycheck, user |-> DefaultUser(t, s),
      engine |-> ScenarioSelectorChoices(<<Paycheck>>)]
     : t \in {"weekly", "biweekly", "semimonthly", "monthly"}, s \in {1, 3, 20}}
    \cup {[kind |-> "schedule", scn |-> EveryNDays(n, o), user |-> DefaultUser("biweekly", 1),
           engine |-> ScenarioSelectorChoices(<<EveryNDays(n, o)>>)]
          : n \in {1, 7, 30}, o \in {0, 1, 5}}
    \cup {[kind |-> "schedule", scn |-> DinnerOut, user |-> DefaultUser("biweekly", 1),
           engine |-> ScenarioSelectorChoices(<<DinnerOut>>)]}

\* a profile of another segment and mood
GenerousUser ==
    UserProfile("Player", "unemployed_no_benefits", "generous",
                [type |-> "biweekly", start_day |-> 1, amount |-> 2200 * Dollar],
                <<>>, 1500 * Dollar)

ProbabilityWorlds ==
    {[kind |-> "probability", user |-> u,
      engine |-> [ScenarioSelectorChoices(<<DinnerOut, OverdraftFee, CharityDonation,
                                            EmergencyFundPledge, ServiceCharge>>)
                  EXCEPT !.balance = b]]
     : b \in {0 - 100 * Dollar, 0 - Cent, 0, 200 * Dollar - Cent, 200 * Dollar, 500 * Dollar},
       u \in {DefaultUser("biweekly", 1), GenerousUser}}

PlanWorlds ==
    {[kind |-> "plan", user |-> DefaultUser("biweekly", 1),
      engine |-> add_saving_plan(ScenarioSelectorChoices(<<SavingContribution>>),
                                 "Start Emergency Fund Pledge", total, 1, due_in, f)]
     : total \in {3 * Dollar, 30 * Dollar, 60 * Dollar, 500 * Dollar},
       due_in \in {10, 90}, f \in {"weekly", "daily"}}

FunctionWorlds == ScheduleWorlds \cup ProbabilityWorlds \cup PlanWorlds

InitSession(worlds) ==
    /\ env \in worlds
    /\ SESSIONS = EmptyDict
    /\ selector = NoEngine
    /\ calls = 0
    /\ last = [op |-> "init"]

Init == InitSession(SessionWorlds)
InitSessions == InitSession(SessionsWorlds)

InitEngineIn(worlds) ==
    /\ env \in worlds
    /\ SESSIONS = EmptyDict
    /\ selector = ScenarioSelectorChoices(env.catalog)
    /\ calls = 0
    /\ last = [op |-> "init"]

InitEngine == InitEngineIn(EngineWorlds)
InitEngineLong == InitEngineIn(EngineLongWorlds)
InitEngineDays == InitEngineIn(EngineDaysWorlds)
InitFunctions ==
    /\ env \in FunctionWorlds
    /\ SESSIONS = EmptyDict
    /\ selector = env.engine
    /\ calls = 0
    /\ last = [op |-> "init"]

Next == Start(1) \/ Commit(1)
NextEngine == EnginePropose \/ EngineCommit
NextFunctions == CallIsScheduledToday \/ CallComputeProbability \/ CallContributionsToday
NextSessions ==
    \E sid \in SessionIds : Start(sid) \/ get_offers(sid) \/ commit(sid) \/ get_state(sid)

\* one session driven through the HTTP layer
Spec == Init /\ [][Next]_vars
\* a session long enough to see a pledge of day 1 through to its due day
FundingWorlds ==
    {World(<<YearlyPledge, SavingContribution>>, DefaultUser("biweekly", 1), MaxDayFunding)
     @@ [menu_only |-> TRUE]}
InitFunding == InitSession(FundingWorlds)

\* the same session with a caller that keeps playing: the session is started
\* and a day that can be committed is committed in the end. This is weak
\* fairness of Start(1) and of Commit(1) with their enabling conditions
\* written out (both handlers always return once their guard holds, and each
\* can act only finitely often, so the fair behaviours are those in which
\* the guards are false again and again)
StartEnabled(sid) == sid \notin DOMAIN SESSIONS
CommitEnabled(sid) == sid \in DOMAIN SESSIONS /\ SESSIONS[sid].day <= env.max_day
SpecSessionFair ==
    Init /\ [][Next]_vars /\ []<>(~StartEnabled(1)) /\ []<>(~CommitEnabled(1))
\* the long session, with the same player
SpecFunding ==
    InitFunding /\ [][Next]_vars /\ []<>(~StartEnabled(1)) /\ []<>(~CommitEnabled(1))
\* one engine driven directly, any day in any order: a few calls, and more
\* calls on a catalog of two
SpecEngine == InitEngine /\ [][NextEngine]_vars
SpecEngineLong == InitEngineLong /\ [][NextEngine]_vars
\* several sessions and every request of the HTTP layer, in any order
SpecSessions == InitSessions /\ [][NextSessions]_vars
\* the helpers of the engine called on their own, on chosen inputs
SpecFunctions == InitFunctions /\ [][NextFunctions]_vars
\* one engine driven directly on the days that matter to plans and payloads
SpecEngineDays == InitEngineDays /\ [][NextEngine]_vars

\* ================================================================ claims
\* the session of the specification Spec
Started == 1 \in DOMAIN SESSIONS

\* ------------------------------------------------------------------- C1
\* the settlement amount of an offer under a choice map: the amount of the
\* option with the supplied code, else of the first option; the embedded
\* amount for a forced offer
C1_settlement(offer, choices) ==
    LET code == IF offer.offer_id \in DOMAIN choices THEN choices[offer.offer_id]
                ELSE offer.options[1].code
        named == {i \in DOMAIN offer.options : offer.options[i].code = code}
    IN  IF "internal_forced_event" \in DOMAIN offer
        THEN offer.internal_forced_event.amount
        ELSE IF named = {} THEN offer.options[1].amount_now
        ELSE offer.options[CHOOSE i \in named : \A j \in named : i <= j].amount_now

\* C1: a commit of day d changes the balance by exactly the sum, over the
\* offers pending for day d, of the settlement amount of the option resolved
\* for each offer, and each committed event records that settlement amount.
C1_CommitSettles ==
    [][(Started /\ last'.op = "commit") =>
        LET e == SESSIONS[1].selector
            offers == Get(e.pending_offers, SESSIONS[1].day, <<>>)
            settled == [i \in DOMAIN offers |-> C1_settlement(offers[i], last'.choices)]
            committed == last'.ret.committed
        IN  /\ SESSIONS'[1].selector.balance - e.balance = SeqSum(settled)
            /\ Len(committed) = Len(offers)
            /\ \A i \in DOMAIN offers : committed[i].amount = settled[i]]_vars

\* a commit of two offers, one settled by a supplied code that is not the
\* first of its menu, one by an unknown code, that moved the balance
C1_Witness ==
    /\ last.op = "commit"
    /\ Len(last.ret.committed) = 2
    /\ \E i, j \in DOMAIN last.ret.committed :
          /\ last.ret.committed[i].chosen_option = "pay_partial"
          /\ last.ret.committed[i].amount < 0
          /\ <<last.day, j>> \in DOMAIN last.choices
          /\ last.choices[<<last.day, j>>] = "bogus"
          /\ last.ret.committed[j].amount > 0

\* ------------------------------------------------------------------- C2
\* C2: every entry of history of category income has amount >= 0, every
\* entry of any other category has amount <= 0.
C2_SignConvention ==
    Started =>
        \A i \in DOMAIN SESSIONS[1].selector.history :
            LET ev == SESSIONS[1].selector.history[i]
            IN  IF ev.type = "income" THEN ev.amount >= 0 ELSE ev.amount <= 0

\* a history with a positive income and a forced deferred payment
C2_Witness ==
    /\ Started
    /\ \E i, j \in DOMAIN SESSIONS[1].selector.history :
          LET h == SESSIONS[1].selector.history
          IN  /\ h[i].type = "income" /\ h[i].amount > 0
              /\ h[j].scenario_id = "deferred_payment" /\ h[j].chosen_option = "forced"
              /\ h[j].amount < 0

\* ------------------------------------------------------------------- C3
\* the schedule predicate: every_n_days is due when (day - offset) mod n = 0
\* and day >= offset; pay_cycle is due every 7, 14 or 30 days from start_day
\* on, semimonthly on start_day and when (day - start_day) mod 15 = 0
C3_due(scn, user, day) ==
    /\ scn.schedule # <<>>
    /\ LET sched == scn.schedule[1] IN
       \/ /\ sched.type = "every_n_days"
          /\ (day - sched.offset) % sched.n = 0
          /\ day >= sched.offset
       \/ /\ sched.type = "pay_cycle"
          /\ LET start == user.pay_cycle.start_day IN
             \/ /\ user.pay_cycle.type = "weekly"
                /\ day >= start /\ (day - start) % 7 = 0
             \/ /\ user.pay_cycle.type = "biweekly"
                /\ day >= start /\ (day - start) % 14 = 0
             \/ /\ user.pay_cycle.type = "monthly"
                /\ day >= start /\ (day - start) % 30 = 0
             \/ /\ user.pay_cycle.type = "semimonthly"
                /\ (day = start \/ (day - start) % 15 = 0)

C3_deterministic == {env.catalog[i] : i \in {j \in DOMAIN env.catalog : env.catalog[j].deterministic}}

\* C3 as stated: the offers of a day hold an offer with the id of a
\* deterministic scenario if and only if the scenario is due that day.
C3_AppearsIffDue ==
    Started =>
        \A scn \in C3_deterministic :
            (\E i \in DOMAIN SESSIONS[1].offers : SESSIONS[1].offers[i].scenario_id = scn.id)
            <=> C3_due(scn, SESSIONS[1].user, SESSIONS[1].day)

\* C3 as amended: the offers of a day hold exactly one offer with a menu for
\* a deterministic scenario if the scenario is due that day and none
\* otherwise; a forced offer with its id appears only on the day after the
\* commit of a delay option of that scenario.
C3_MenuIffDue ==
    Started =>
        \A scn \in C3_deterministic :
            LET offers == SESSIONS[1].offers
                day == SESSIONS[1].day
                history == SESSIONS[1].selector.history
                mine == {i \in DOMAIN offers : offers[i].scenario_id = scn.id}
                menus == {i \in mine : "internal_forced_event" \notin DOMAIN offers[i]}
            IN  /\ Cardinality(menus) =
                       (IF C3_due(scn, SESSIONS[1].user, day) THEN 1 ELSE 0)
                /\ \A i \in mine \ menus :
                      \E h \in DOMAIN history :
                          /\ history[h].scenario_id = scn.id
                          /\ history[h].day = day - 1
                          /\ history[h].chosen_option \in {"delay_1d", "delay"}

\* the second pay day of a weekly cycle is offered after a paycheck was
\* delayed and re-spawned on the days before
C3_Witness ==
    /\ Started
    /\ SESSIONS[1].day = 8
    /\ \E i \in DOMAIN SESSIONS[1].offers :
          /\ SESSIONS[1].offers[i].scenario_id = "scn_paycheck"
          /\ "internal_forced_event" \notin DOMAIN SESSIONS[1].offers[i]
    /\ \E h \in DOMAIN SESSIONS[1].selector.history :
          /\ SESSIONS[1].selector.history[h].scenario_id = "scn_paycheck"
          /\ SESSIONS[1].selector.history[h].chosen_option = "forced"
          /\ SESSIONS[1].selector.history[h].day = 2

\* ------------------------------------------------------------------- C4
\* a breakdown with every factor equal to 1
C4_all_ones ==
    [base |-> Certain, segment |-> One, mood |-> One, predisposition |-> One,
     balance |-> 10, cooldown |-> 1]

\* the offers and the committed events of a session with the id of scn
C4_offers(scn) ==
    {SESSIONS[1].offers[i] :
        i \in {j \in DOMAIN SESSIONS[1].offers : SESSIONS[1].offers[j].scenario_id = scn.id}}
C4_events(scn) ==
    {SESSIONS[1].selector.history[i] :
        i \in {j \in DOMAIN SESSIONS[1].selector.history :
                  SESSIONS[1].selector.history[j].scenario_id = scn.id}}

\* C4 as stated: a deterministic scenario reports probability 0 with every
\* factor equal to 1, from compute_probability and on its offers and events.
C4_ZeroEverywhere ==
    Started =>
        \A scn \in C3_deterministic :
            /\ compute_probability(SESSIONS[1].selector, scn, SESSIONS[1].user,
                                   SESSIONS[1].day)
                   = [p |-> 0, details |-> C4_all_ones]
            /\ \A x \in C4_offers(scn) \cup C4_events(scn) :
                  x.probability = 0 /\ x.prob_details = C4_all_ones

\* C4 as amended: compute_probability gives a deterministic scenario
\* probability 0 with base 0 and every other factor 1; its scheduled offers
\* and the events committed from them carry probability 1 and the breakdown
\* {deterministic: schedule}, its forced re-spawns probability 1 and the
\* breakdown {forced: triggered}.
C4_ZeroComposedOneOffered ==
    Started =>
        \A scn \in C3_deterministic :
            /\ compute_probability(SESSIONS[1].selector, scn, SESSIONS[1].user,
                                   SESSIONS[1].day)
                   = [p |-> 0,
                      details |-> [base |-> 0, segment |-> One, mood |-> One,
                                   predisposition |-> One, balance |-> 10, cooldown |-> 1]]
            /\ \A x \in C4_offers(scn) \cup C4_events(scn) :
                  /\ x.probability = Certain
                  /\ x.prob_details =
                        IF "internal_forced_event" \in DOMAIN x
                           \/ Get(x, "chosen_option", "") = "forced"
                        THEN [forced |-> "triggered"]
                        ELSE [deterministic |-> "schedule"]

\* a session holding a committed bill, a committed forced paycheck and the
\* scheduled offer of a later pay day
C4_Witness ==
    /\ Started
    /\ \E b, f \in DOMAIN SESSIONS[1].selector.history :
          LET h == SESSIONS[1].selector.history
          IN  /\ h[b].type = "bill" /\ h[b].deterministic /\ h[b].chosen_option = "pay_now"
              /\ h[f].scenario_id = "scn_paycheck" /\ h[f].chosen_option = "forced"
    /\ \E i \in DOMAIN SESSIONS[1].offers :
          /\ SESSIONS[1].offers[i].scenario_id = "scn_paycheck"
          /\ SESSIONS[1].offers[i].probability = Certain

\* ------------------------------------------------------------------- C5
\* profiles with no, a very large and a negative predisposition multiplier
C5_profiles ==
    {env.user,
     [env.user EXCEPT !.predispositions =
         <<<<"leisure", 10000 * One>>, <<"fees", 10000 * One>>>>],
     [env.user EXCEPT !.predispositions = <<<<"leisure", 0 - 3 * One>>, <<"fees", 0>>>>]}

\* C5: compute_probability gives every scenario that is not deterministic a
\* probability in [0, 0.95], for every profile, balance and history, and a
\* probabilistic offer carries a probability in (0, 0.95].
C5_ProbabilityRange ==
    /\ \A i \in DOMAIN selector.catalog :
       \A user \in C5_profiles :
       \A today \in 1..(MaxEngineDay + 1) :
          ~selector.catalog[i].deterministic =>
              LET p == compute_probability(selector, selector.catalog[i], user, today).p
              IN  0 <= p /\ p <= (95 * Certain) \div 100
    /\ \A day \in DOMAIN selector.pending_offers :
       \A i \in DOMAIN selector.pending_offers[day] :
          LET offer == selector.pending_offers[day][i] IN
          ~offer.deterministic =>
              0 < offer.probability /\ offer.probability <= (95 * Certain) \div 100

\* a pending offer whose composed probability was cut to 0.95, beside a
\* scenario whose negative multiplier gives probability 0
C5_Witness ==
    /\ env.user = PredisposedUser
    /\ compute_probability(selector, OverdraftFee, env.user, 1).details.predisposition < 0
    /\ compute_probability(selector, OverdraftFee, env.user, 1).p = 0
    /\ \E day \in DOMAIN selector.pending_offers :
       \E i \in DOMAIN selector.pending_offers[day] :
          /\ ~selector.pending_offers[day][i].deterministic
          /\ selector.pending_offers[day][i].probability = (95 * Certain) \div 100
          /\ selector.pending_offers[day][i].prob_details.predisposition = 50 * One

\* ------------------------------------------------------------------- C6
\* the entries of history with the name
C6_named(history, name) == {i \in DOMAIN history : history[i].name = name}

\* the day d the name was last committed on: the day of its latest entry,
\* which is also its greatest day
C6_last_day(history, name) ==
    history[CHOOSE i \in C6_named(history, name) :
                \A j \in C6_named(history, name) : j <= i].day

C6_settled(history, name) ==
    /\ C6_named(history, name) # {}
    /\ \A j \in C6_named(history, name) : history[j].day <= C6_last_day(history, name)

\* the clamped product of the factors other than the cooldown factor
C6_other_factors(e, scn, user) ==
    LET seg == tag_factor(scn.tags, SEGMENTS[user.segment_key].tag_weights)
        mood == tag_factor(scn.tags, Get(MOODS, user.mood, EmptyDict))
        pred == predisposition_product(user.predispositions, scn)
        composed == (((((scn.base_daily_prob * seg * mood) \div (One * One)) * pred) \div One)
                     * balance_factor(e, scn)) \div 10
    IN  Min(Max(composed, 0), (95 * Certain) \div 100)

\* the cooldown of the scenarios of the catalog last committed on some day d:
\* probability 0 on the days d..d+c, the other factors' product on day d+c+1
C6_cooldown(e, user) ==
    \A i \in DOMAIN e.catalog :
        LET scn == e.catalog[i]
            c == scn.cooldown_days
        IN  (~scn.deterministic /\ c > 0 /\ C6_settled(e.history, scn.name)) =>
                LET d == C6_last_day(e.history, scn.name) IN
                /\ \A t \in d..(d + c) : compute_probability(e, scn, user, t).p = 0
                /\ compute_probability(e, scn, user, d + c + 1).p
                       = C6_other_factors(e, scn, user)
                /\ compute_probability(e, scn, user, d + c + 1).details.cooldown = 1

C6_day_ordered(history) ==
    \A i, j \in DOMAIN history : i < j => history[i].day <= history[j].day

\* C6 as stated: after any sequence of propose_day and commit_day calls a
\* scenario with cooldown c > 0 last committed on day d has probability 0 on
\* the days d..d+c and its other factors' clamped product on day d+c+1.
C6_CooldownAnySequence == C6_cooldown(selector, env.user)

\* C6 as amended: the same, after any sequence of calls that committed the
\* days in non-decreasing order (history is day-ordered).
C6_CooldownDayOrdered ==
    C6_day_ordered(selector.history) => C6_cooldown(selector, env.user)

\* a day-ordered history in which another scenario was committed on the day
\* after the scenario in its cooldown
C6_Witness ==
    /\ C6_day_ordered(selector.history)
    /\ \E i, j \in DOMAIN selector.history :
          /\ i < j
          /\ selector.history[i].name = "Streaming Movie Rental"
          /\ selector.history[i].day = 1
          /\ selector.history[j].name = "Overdraft Fee"
          /\ selector.history[j].day = 2
    /\ compute_probability(selector, StreamingMovieRental, env.user, 2).p = 0
    /\ compute_probability(selector, StreamingMovieRental, env.user, 3).p > 0

\* ------------------------------------------------------------------- C7
\* C7: propose_day(user, day, max_probabilistic = k) returns at most k offers
\* of the probabilistic pool; the candidates are tried in descending order of
\* probability and none is tried after the k-th acceptance.
C7_Cap ==
    last.op = "propose_day" =>
        LET k == last.max_probabilistic
            pool_offers == {i \in DOMAIN last.ret : ~last.ret[i].deterministic}
            accepted == {i \in DOMAIN last.trials : last.trials[i].accepted}
        IN  /\ Cardinality(pool_offers) <= k
            /\ Cardinality(pool_offers) = Cardinality(accepted)
            /\ \A i, j \in DOMAIN last.trials :
                  i < j => last.trials[i].p >= last.trials[j].p
            /\ \A i \in DOMAIN last.trials :
                  Cardinality({j \in accepted : j < i}) < k

\* a call with k = 1 on a pool of three: the first candidate missed, the
\* second was accepted, the third was not tried
C7_Witness ==
    /\ last.op = "propose_day"
    /\ last.max_probabilistic = 1
    /\ Len(sorted_pool(ScenarioSelectorChoices(env.catalog), env.user, last.day)) = 3
    /\ Len(last.trials) = 2
    /\ ~last.trials[1].accepted
    /\ last.trials[2].accepted
    /\ Len(last.ret) = 1

\* ------------------------------------------------------------------- C8
\* the payloads due on a day, and those of them that spawn a lottery result
C8_due(e, due) == Get(e.delayed_events, due, <<>>)
C8_results(e, due) ==
    Cardinality({i \in DOMAIN C8_due(e, due) : C8_due(e, due)[i].spawn = "lottery_result"})

\* C8: committing a lottery offer on day d adds to the queue, all due on day
\* d+1, exactly 5 lottery_result payloads for buy_5, 1 for buy_1 and none for
\* skip, and settles five ticket costs, one ticket cost and 0.
C8_LotteryEnqueues ==
    [][last'.op = "commit_day" =>
        \A i \in DOMAIN last'.ret :
            LET ev == last'.ret[i]
                d == last'.day
                n == CASE ev.chosen_option = "buy_5" -> 5
                       [] ev.chosen_option = "buy_1" -> 1
                       [] OTHER -> 0
                ticket_cost == 0 - by_id_get(selector, ev.scenario_id)[1].amount.value
            IN  ev.type = "lottery" =>
                    /\ ev.chosen_option \in {"skip", "buy_1", "buy_5"}
                    /\ C8_results(selector', d + 1) = C8_results(selector, d + 1) + n
                    /\ Len(C8_due(selector', d + 1)) = Len(C8_due(selector, d + 1)) + n
                    /\ \A due \in (DOMAIN selector'.delayed_events) \ {d + 1} :
                          C8_due(selector', due) = C8_due(selector, due)
                    /\ ev.amount = n * ticket_cost]_vars

\* five tickets bought on a day: five results due on the next day
C8_Witness ==
    /\ last.op = "commit_day"
    /\ \E i \in DOMAIN last.ret :
          /\ last.ret[i].type = "lottery"
          /\ last.ret[i].chosen_option = "buy_5"
          /\ last.ret[i].amount = 0 - 10 * Dollar
    /\ C8_results(selector, last.day + 1) = 5

\* ------------------------------------------------------------------- C9
\* the bills committed with pay_partial by the last request
C9_partial ==
    {last.ret.committed[i] :
        i \in {j \in DOMAIN last.ret.committed :
                  /\ last.ret.committed[j].type = "bill"
                  /\ last.ret.committed[j].chosen_option = "pay_partial"}}

\* after the commit of day d: one deferred_payment payload is due on day
\* d+3, its override amount the half of A plus 5%
C9_enqueued(ev) ==
    LET due == Get(SESSIONS[1].selector.delayed_events, ev.day + 3, <<>>) IN
    /\ Len(due) = 1
    /\ due[1].spawn = "deferred_payment"
    /\ due[1].data.override_amount * 200 = ev.proposed_amount * 105
    /\ ev.proposed_amount = 0 - 100 * Dollar =>
          due[1].data.override_amount = 0 - 5250 * Cent

\* the commit of day d+3 settles a forced event of exactly that amount
C9_settled ==
    \A h \in DOMAIN SESSIONS[1].selector.history :
        LET ev == SESSIONS[1].selector.history[h] IN
        (ev.type = "bill" /\ ev.chosen_option = "pay_partial" /\ ev.day + 3 = last.day) =>
            \E i \in DOMAIN last.ret.committed :
                /\ last.ret.committed[i].scenario_id = "deferred_payment"
                /\ last.ret.committed[i].chosen_option = "forced"
                /\ last.ret.committed[i].day = ev.day + 3
                /\ last.ret.committed[i].amount * 200 = ev.proposed_amount * 105

\* C9 as stated: pay_partial on a bill of amount A settles exactly A/2 on day
\* d, enqueues one deferred_payment payload due on day d+3 with A/2 * 1.05,
\* and that payload settles as a forced event of that amount on day d+3.
C9_ExactHalf ==
    last.op = "commit" =>
        /\ \A ev \in C9_partial : ev.amount * 2 = ev.proposed_amount /\ C9_enqueued(ev)
        /\ C9_settled

\* C9 as amended: pay_partial settles A/2 rounded to the nearest cent on day
\* d (exactly A/2 when that is a whole number of cents: 50 for A = 100); the
\* payload and its settlement on day d+3 are as stated.
C9_RoundedHalf ==
    last.op = "commit" =>
        /\ \A ev \in C9_partial :
              /\ ev.amount % Cent = 0
              /\ Abs(2 * ev.amount - ev.proposed_amount) <= Cent
              /\ (ev.proposed_amount % (2 * Cent) = 0 => ev.amount * 2 = ev.proposed_amount)
              /\ (ev.proposed_amount = 0 - 100 * Dollar => ev.amount = 0 - 50 * Dollar)
              /\ C9_enqueued(ev)
        /\ C9_settled

\* the commit of day 4 settled the deferred half of a bill of 200.004 that
\* was paid in part on day 1 with 100.00
C9_Witness ==
    /\ last.op = "commit"
    /\ last.day = 4
    /\ \E i \in DOMAIN last.ret.committed :
          /\ last.ret.committed[i].scenario_id = "deferred_payment"
          /\ last.ret.committed[i].chosen_option = "forced"
          /\ last.ret.committed[i].amount = 0 - (105 * Dollar + 21)
    /\ \E h \in DOMAIN SESSIONS[1].selector.history :
          /\ SESSIONS[1].selector.history[h].chosen_option = "pay_partial"
          /\ SESSIONS[1].selector.history[h].day = 1
          /\ SESSIONS[1].selector.history[h].proposed_amount = 0 - (200 * Dollar + OffGrid)
          /\ SESSIONS[1].selector.history[h].amount = 0 - 100 * Dollar

\* ------------------------------------------------------------------ C10
\* a forced contribution offer or event among xs
C10_contribution(xs) ==
    \E i \in DOMAIN xs : xs[i].scenario_id = "saving_contribution"

\* C10 as stated: a plan started by a commit on day s has a contribution
\* offer on day s itself, and besides on exactly the days s + 7k up to its
\* due day while something remains (something remained before a day's offers
\* were made when a contribution is among them or something remains after).
C10_ContributionDays ==
    Started =>
        /\ last.op = "commit" =>
              \A i \in DOMAIN last.ret.committed :
                  (/\ last.ret.committed[i].type = "saving_pledge"
                   /\ last.ret.committed[i].chosen_option
                          \in {"start", "start_smaller", "start_bigger"})
                  => C10_contribution(last.ret.committed)
        /\ \A i \in DOMAIN SESSIONS[1].selector.active_saving_plans :
              LET plan == SESSIONS[1].selector.active_saving_plans[i]
                  day == SESSIONS[1].day
              IN  day > plan.start_day =>
                      (C10_contribution(SESSIONS[1].offers)
                       <=> /\ (day - plan.start_day) % 7 = 0
                           /\ day <= plan.due_day
                           /\ (plan.total > plan.contributed
                               \/ C10_contribution(SESSIONS[1].offers)))

\* the later days alone: a contribution offer exactly on the days s + 7k
C10_LaterDays ==
    Started =>
        \A i \in DOMAIN SESSIONS[1].selector.active_saving_plans :
            LET plan == SESSIONS[1].selector.active_saving_plans[i]
                day == SESSIONS[1].day
            IN  day > plan.start_day =>
                    (C10_contribution(SESSIONS[1].offers)
                     <=> /\ (day - plan.start_day) % 7 = 0
                         /\ day <= plan.due_day
                         /\ (plan.total > plan.contributed
                             \/ C10_contribution(SESSIONS[1].offers)))

\* ------------------------------------------------------------------ C11
\* the contribution offers among xs, in order
C11_contributions(xs) ==
    SelectSeq(xs, LAMBDA o : o.scenario_id = "saving_contribution"
                             /\ o.prob_details = [plan |-> "auto"])

\* a plan that takes no further contribution on the day
C11_closed(plan, day) == plan.contributed >= plan.total \/ day > plan.due_day

\* C11: every saving plan has 0 <= contributed <= total; contributed never
\* decreases and the plan record stays in the ledger; a propose_day emits no
\* contribution for a plan whose contributed has reached its total or whose
\* due day has passed (the contributions of a day are those of the other
\* plans, each for the amount its plan's contributed grew by).
C11_PlanLedger ==
    [][LET plans == selector.active_saving_plans
           plans2 == selector'.active_saving_plans
       IN  /\ \A i \in DOMAIN plans2 :
                 0 <= plans2[i].contributed /\ plans2[i].contributed <= plans2[i].total
           /\ \A i \in DOMAIN plans :
                 /\ i \in DOMAIN plans2
                 /\ plans2[i].contributed >= plans[i].contributed
                 /\ plans2[i] = [plans[i] EXCEPT !.contributed = plans2[i].contributed]
           /\ last'.op = "propose_day" =>
                 LET grown == {i \in DOMAIN plans :
                                  plans2[i].contributed > plans[i].contributed}
                     out == C11_contributions(last'.ret)
                 IN  /\ \A i \in grown : ~C11_closed(plans[i], last'.day)
                     /\ Len(out) = Cardinality(grown)
                     /\ SeqSum([k \in DOMAIN out |-> 0 - out[k].proposed_amount])
                            = SeqSum([i \in DOMAIN plans |->
                                        plans2[i].contributed - plans[i].contributed])
           /\ last'.op = "commit_day" =>
                 \A i \in DOMAIN plans : plans2[i] = plans[i]
      ]_vars

\* a plan was started on day 1 and filled by the contribution of day 85; a
\* later propose_day found it full and emitted nothing for it
C11_Witness ==
    /\ last.op = "propose_day"
    /\ last.day \in {85, 92}
    /\ C11_contributions(last.ret) = <<>>
    /\ \E i \in DOMAIN selector.active_saving_plans :
          LET plan == selector.active_saving_plans[i] IN
          plan.start_day = 1 /\ plan.total > 0 /\ plan.contributed = plan.total

\* ------------------------------------------------------------------ C12
\* the forced offers among xs (realized delayed spawns and plan
\* contributions), in order
C12_forced(xs) == SelectSeq(xs, LAMBDA o : "internal_forced_event" \in DOMAIN o)

\* the engine state the claim names
C12_state(e) ==
    <<e.delayed_events,
      [i \in DOMAIN e.active_saving_plans |-> e.active_saving_plans[i].contributed],
      e.last_pay_amount, e.balance, e.history>>

\* C12: a propose_day that follows a propose_day of the same day, with no
\* commit_day in between, leaves the delayed-spawn queue, every plan's
\* contributed, the last pay amount, the balance and history as the first
\* call left them, and returns the same forced offers as the first call.
C12_ProposeIdempotent ==
    [][(last.op = "propose_day" /\ last'.op = "propose_day" /\ last'.day = last.day)
       => /\ C12_state(selector') = C12_state(selector)
          /\ C12_forced(last'.ret) = C12_forced(last.ret)
      ]_vars

\* ------------------------------------------------------------------ C13
\* C13: the pending-offer store holds offers for no day other than the one
\* being played (the day of the last call), so the offers of a day the
\* caller left without committing are gone.
C13_NoCarryOver ==
    last.op \in {"propose_day", "commit_day"} =>
        DOMAIN selector.pending_offers \subseteq {last.day}

\* C13, the consequence: a commit_day of a day commits nothing when the call
\* before it was for another day.
C13_StaleNotCommitted ==
    [][(/\ last.op \in {"propose_day", "commit_day"}
        /\ last'.op = "commit_day"
        /\ last'.day # last.day)
       => last'.ret = <<>>
      ]_vars

\* ------------------------------------------------------------------ C14
\* the forced offers among xs that realize delayed payloads, in order
C14_realized(xs) == SelectSeq(xs, LAMBDA o : o.prob_details = [forced |-> "triggered"])

\* the payloads of a list whose spawn id resolves in the engine's index
C14_resolving(e, payloads) == SelectSeq(payloads, LAMBDA p : by_id_get(e, p.spawn) # <<>>)

\* the forced offer realizes the payload
C14_realizes(offer, p) ==
    /\ offer.scenario_id = p.spawn
    /\ "override_amount" \in DOMAIN p.data =>
           offer.proposed_amount = p.data.override_amount

\* C14: a payload enqueued for day D is consumed once and only on day D:
\* propose_day(D) removes exactly the payloads due on D from the queue and
\* returns one forced offer for each of them, in order; it leaves the
\* payloads of every other day in the queue, and commit_day removes none
\* (it only appends), so no other call realizes a payload and no payload is
\* realized twice.
C14_ConsumedOnce ==
    [][LET queue == selector.delayed_events
           queue2 == selector'.delayed_events
       IN  /\ last'.op = "propose_day" =>
                 LET due == C14_resolving(selector, Get(queue, last'.day, <<>>))
                     out == C14_realized(last'.ret)
                 IN  /\ queue2 = DictPop(queue, last'.day)
                     /\ Len(out) = Len(due)
                     /\ \A i \in DOMAIN out : C14_realizes(out[i], due[i])
           /\ last'.op = "commit_day" =>
                 \A d \in DOMAIN queue :
                     /\ d \in DOMAIN queue2
                     /\ Len(queue2[d]) >= Len(queue[d])
                     /\ SubSeq(queue2[d], 1, Len(queue[d])) = queue[d]
      ]_vars

\* the paycheck delayed on day 1 was realized by propose_day(2), which left
\* nothing due on day 2, while the half of the bill deferred to day 4 is
\* still in the queue
C14_Witness ==
    /\ last.op = "propose_day"
    /\ last.day = 2
    /\ \E i \in DOMAIN last.ret :
          /\ last.ret[i].prob_details = [forced |-> "triggered"]
          /\ last.ret[i].scenario_id = "scn_paycheck"
    /\ 2 \notin DOMAIN selector.delayed_events
    /\ 4 \in DOMAIN selector.delayed_events
    /\ selector.delayed_events[4] # <<>>

\* ------------------------------------------------------------------ C15
\* the option code commit_day must resolve for an offer: the supplied code
\* when it is in the offer's menu, else the code of the first option
C15_resolved(offer, choices) ==
    IF /\ offer.offer_id \in DOMAIN choices
       /\ \E k \in DOMAIN offer.options : offer.options[k].code = choices[offer.offer_id]
    THEN choices[offer.offer_id]
    ELSE offer.options[1].code

\* C15: whatever the choice map (entries missing, codes unknown), a commit
\* commits exactly one event per offer pending for the day, in order, and
\* the chosen option of each is the supplied code when the menu has it and
\* the first option otherwise.
C15_OneEventPerOffer ==
    [][last'.op = "commit" =>
          LET state == SESSIONS[last'.sid]
              offers == Get(state.selector.pending_offers, state.day, <<>>)
              committed == last'.ret.committed
          IN  /\ Len(committed) = Len(offers)
              /\ \A i \in DOMAIN offers :
                    /\ committed[i].scenario_id = offers[i].scenario_id
                    /\ committed[i].chosen_option = C15_resolved(offers[i], last'.choices)
      ]_vars

\* a commit whose choice map had an unknown code for one offer, a code of
\* the menu (not the first) for another, and both were committed
C15_Witness ==
    /\ last.op = "commit"
    /\ Len(last.ret.committed) >= 2
    /\ \E i, j \in DOMAIN last.ret.committed :
          /\ <<last.day, i>> \in DOMAIN last.choices
          /\ last.choices[<<last.day, i>>] = "bogus"
          /\ last.ret.committed[i].chosen_option = "accept"
          /\ <<last.day, j>> \in DOMAIN last.choices
          /\ last.choices[<<last.day, j>>] = "pay_partial"
          /\ last.ret.committed[j].chosen_option = "pay_partial"

\* ------------------------------------------------------------------ C16
\* the payloads of a list that target the reserved id, and the forced
\* offers of a list realized for it
C16_targeting(payloads, id) == SelectSeq(payloads, LAMBDA p : p.spawn = id)
C16_realized(xs, id) ==
    SelectSeq(xs, LAMBDA o : o.prob_details = [forced |-> "triggered"] /\ o.scenario_id = id)

\* C16: in an engine constructed from a catalog, whatever reserved ids it
\* lacks, the four reserved ids resolve in the id index, to a scenario with
\* that id, and a propose_day realizes every payload due that day that
\* targets a reserved id into a forced offer.
C16_ReservedResolve ==
    [][/\ \A n \in DOMAIN needed :
             /\ by_id_get(selector', needed[n]) # <<>>
             /\ by_id_get(selector', needed[n])[1].id = needed[n]
       /\ last'.op = "propose_day" =>
             \A n \in DOMAIN needed :
                 Len(C16_realized(last'.ret, needed[n]))
                    = Len(C16_targeting(Get(selector.delayed_events, last'.day, <<>>),
                                        needed[n]))
      ]_vars

\* the engine was given a catalog without deferred_payment, and the deferred
\* half of a bill was realized on its due day
C16_Witness ==
    /\ \A j \in DOMAIN env.catalog : env.catalog[j].id # "deferred_payment"
    /\ last.op = "propose_day"
    /\ last.day = 4
    /\ C16_realized(last.ret, "deferred_payment") # <<>>

\* ------------------------------------------------------------------ C17
\* C17: history is append-only: a propose_day leaves it unchanged, and a
\* commit_day leaves every entry it held in place, unchanged and in order,
\* and appends the events it committed (its result) at the end.
C17_AppendOnly ==
    [][/\ last'.op = "propose_day" => selector'.history = selector.history
       /\ last'.op = "commit_day" => selector'.history = selector.history \o last'.ret
       /\ Len(selector'.history) >= Len(selector.history)
       /\ SubSeq(selector'.history, 1, Len(selector.history)) = selector.history
      ]_vars

\* a commit_day appended its events to a history that held earlier entries
C17_Witness ==
    /\ last.op = "commit_day"
    /\ last.ret # <<>>
    /\ Len(selector.history) > Len(last.ret)
    /\ SubSeq(selector.history, Len(selector.history) - Len(last.ret) + 1,
              Len(selector.history)) = last.ret

\* ------------------------------------------------------------------ C18
\* C18: a session starts on day 1 with the offers proposed for day 1; each
\* commit advances its day by exactly 1 and replaces its offers with the
\* offers proposed for the new day, and every event it commits carries the
\* day that was committed. Hence after n commits the day is 1 + n and the
\* events of the k-th commit carry day k.
C18_DayAdvances ==
    [][/\ last'.op = "start" =>
             LET state2 == SESSIONS'[last'.sid] IN
             /\ state2.day = 1
             /\ state2.offers = last'.ret.offers
             /\ \A i \in DOMAIN state2.offers : state2.offers[i].day = 1
       /\ last'.op = "commit" =>
             LET state == SESSIONS[last'.sid]
                 state2 == SESSIONS'[last'.sid]
             IN  /\ state2.day = state.day + 1
                 /\ last'.ret.day = state2.day
                 /\ state2.offers = last'.ret.next_offers
                 /\ state2.offers = Get(state2.selector.pending_offers, state2.day, <<>>)
                 /\ \A i \in DOMAIN state2.offers : state2.offers[i].day = state2.day
                 /\ \A i \in DOMAIN last'.ret.committed :
                       last'.ret.committed[i].day = state.day
                 /\ \A h \in DOMAIN state2.selector.history :
                       state2.selector.history[h].day < state2.day
      ]_vars

\* the third commit of a session committed events of day 3 and left the
\* session on day 4 with offers of day 4
C18_Witness ==
    /\ last.op = "commit"
    /\ last.day = 3
    /\ SESSIONS[last.sid].day = 4
    /\ last.ret.committed # <<>>
    /\ \A i \in DOMAIN last.ret.committed : last.ret.committed[i].day = 3
    /\ \E h \in DOMAIN SESSIONS[last.sid].selector.history :
          SESSIONS[last.sid].selector.history[h].day = 1

\* ------------------------------------------------------------------ C19
\* C19: a request (offers, commit or state) that names an unknown session
\* id is answered with not found (404) and changes nothing: the sessions,
\* and so the day, balance, history, pending offers, delayed-spawn queue and
\* saving plans of each of them, are as before and no session is created.
C19_UnknownSessionNotFound ==
    [][/\ (last'.op # "start" /\ last'.sid \notin DOMAIN SESSIONS)
             => (last'.op = "not_found" /\ last'.status = 404)
       /\ last'.op = "not_found" => SESSIONS' = SESSIONS
      ]_vars

\* a commit that named an unknown id was answered with not found while
\* another session had a history
C19_Witness ==
    /\ last.op = "not_found"
    /\ last.request = "commit"
    /\ last.sid \notin DOMAIN SESSIONS
    /\ \E t \in DOMAIN SESSIONS : SESSIONS[t].selector.history # <<>>

\* ------------------------------------------------------------------ C20
\* C20: sessions are isolated: a call leaves every session other than the
\* one it names, with its day, balance, history, pending offers,
\* delayed-spawn queue and saving plans, exactly as it was.
C20_Isolated ==
    [][\A t \in DOMAIN SESSIONS :
          t # last'.sid => (t \in DOMAIN SESSIONS' /\ SESSIONS'[t] = SESSIONS[t])
      ]_vars

\* two sessions with interleaved calls stand on different balances after a
\* commit of the second
C20_Witness ==
    /\ DOMAIN SESSIONS = {1, 2}
    /\ last.op = "commit"
    /\ last.sid = 2
    /\ SESSIONS[1].day = 2
    /\ SESSIONS[2].day = 2
    /\ SESSIONS[1].selector.balance # SESSIONS[2].selector.balance

\* ------------------------------------------------------------------ C21
\* the tiers of the payout curve
C21_none(a) == a = 0
C21_small(a) == 5 * Dollar <= a /\ a <= 50 * Dollar
C21_big(a) == 1000 * Dollar <= a /\ a <= 10000 * Dollar

\* C21: the amounts realize_delayed rolls for a lottery_result follow the
\* three-tier curve over the roll r in [0, 1): 0 for r < 0.921, a small win
\* in [5, 50] for the next 0.079, a big win in [1000, 10000] for the rest;
\* every amount lies in a tier and each tier is the outcome of some roll
\* a session's engine can draw.
C21_ThreeTiers ==
    Started =>
        /\ \A r \in Rolls : \A a \in lottery_amounts(r) :
              /\ r < 9210 => C21_none(a)
              /\ (9210 <= r /\ r < 9210 + 790) => C21_small(a)
              /\ r >= 9210 + 790 => C21_big(a)
        /\ \E r \in Rolls : \E a \in lottery_amounts(r) : C21_none(a)
        /\ \E r \in Rolls : \E a \in lottery_amounts(r) : C21_small(a)
        /\ \E r \in Rolls : \E a \in lottery_amounts(r) : C21_big(a)

\* what holds: every offer realized for a lottery_result carries no win or
\* a small win, never a big one
C21_NoBigWin ==
    Started =>
        \A i \in DOMAIN SESSIONS[1].offers :
            LET o == SESSIONS[1].offers[i] IN
            (o.scenario_id = "lottery_result" /\ o.prob_details = [forced |-> "triggered"])
                => (C21_none(o.proposed_amount) \/ C21_small(o.proposed_amount))

\* ------------------------------------------------------------------ C25
\* the schedule predicate as the claim states it
C25_due(scn, user, day) ==
    IF scn.schedule = <<>> THEN FALSE
    ELSE LET sched == scn.schedule[1] IN
         CASE sched.type = "every_n_days" ->
                 (day - sched.offset) % sched.n = 0 /\ day >= sched.offset
           [] sched.type = "pay_cycle" ->
                 LET start == user.pay_cycle.start_day
                     ctype == user.pay_cycle.type
                 IN  CASE ctype = "weekly" -> day >= start /\ (day - start) % 7 = 0
                       [] ctype = "biweekly" -> day >= start /\ (day - start) % 14 = 0
                       [] ctype = "monthly" -> day >= start /\ (day - start) % 30 = 0
                       [] ctype = "semimonthly" ->
                             day = start \/ (day - start) % 15 = 0

\* C25: is_scheduled_today answers, for every day, as the schedule predicate
\* says: every_n_days by (day - offset) mod n and day >= offset; a pay cycle
\* by day >= start_day and (day - start_day) mod 7, 14 or 30; semimonthly by
\* day = start_day or (day - start_day) mod 15 = 0; never without a schedule.
C25_SchedulePredicate ==
    last.op = "is_scheduled_today" =>
        (last.ret <=> C25_due(env.scn, env.user, last.day))

\* a semimonthly cycle that starts on day 20 is due on day 5
C25_Witness ==
    /\ last.op = "is_scheduled_today"
    /\ env.user.pay_cycle.type = "semimonthly"
    /\ env.user.pay_cycle.start_day = 20
    /\ env.scn.name = "Paycheck"
    /\ last.day = 5
    /\ last.ret = TRUE

\* ------------------------------------------------------------------ C22
\* the forced offers of a list: their positions
C22_forced(offers) == {i \in DOMAIN offers : "internal_forced_event" \in DOMAIN offers[i]}

\* C22: whatever the choice map holds for a forced offer, commit_day
\* commits one event for it, with chosen option forced and the embedded
\* amount; when every offer of the day is forced the balance moves by the
\* sum of the embedded amounts, the delayed-spawn queue gets no payload and
\* no plan is started.
C22_ForcedNoChoice ==
    [][last'.op = "commit_day" =>
          LET offers == Get(selector.pending_offers, last'.day, <<>>)
              forced == C22_forced(offers)
          IN  /\ Len(last'.ret) = Len(offers)
              /\ \A i \in forced :
                    /\ last'.ret[i].chosen_option = "forced"
                    /\ last'.ret[i].amount = offers[i].internal_forced_event.amount
                    /\ last'.ret[i].scenario_id = offers[i].scenario_id
              /\ forced = DOMAIN offers =>
                    /\ selector'.balance = selector.balance
                          + SeqSum([i \in DOMAIN offers |->
                                       offers[i].internal_forced_event.amount])
                    /\ selector'.delayed_events = selector.delayed_events
                    /\ selector'.active_saving_plans = selector.active_saving_plans
      ]_vars

\* a forced offer was committed under a code other than forced (the event
\* was built from the offer's only option), and under the code forced or
\* none (the embedded event was committed)
C22_Witness ==
    /\ last.op = "commit_day"
    /\ last.ret # <<>>
    /\ \A i \in DOMAIN last.ret : last.ret[i].chosen_option = "forced"
    /\ \E i \in DOMAIN last.ret : "chosen_label" \in DOMAIN last.ret[i]

\* ------------------------------------------------------------------ C23
\* C23: the scheduler only proposes: a propose_day leaves the running
\* balance and history unchanged; a step that changes either of them is a
\* commit_day.
C23_ProposeSettlesNothing ==
    [][/\ last'.op = "propose_day" =>
             /\ selector'.balance = selector.balance
             /\ selector'.history = selector.history
       /\ (selector'.balance # selector.balance \/ selector'.history # selector.history)
             => last'.op = "commit_day"
      ]_vars

\* a propose_day returned a forced offer with an amount while the engine
\* had a balance and a history from an earlier commit
C23_Witness ==
    /\ last.op = "propose_day"
    /\ \E i \in DOMAIN last.ret :
          /\ "internal_forced_event" \in DOMAIN last.ret[i]
          /\ last.ret[i].proposed_amount # 0
    /\ selector.balance # 0
    /\ selector.history # <<>>

\* ------------------------------------------------------------------ C24
\* the phase of the day an offer or event comes from: 1 realized delayed
\* spawn, 2 deterministic schedule, 3 probabilistic pool, 4 plan contribution
C24_phase(x) ==
    IF x.prob_details = [forced |-> "triggered"] THEN 1
    ELSE IF x.prob_details = [deterministic |-> "schedule"] THEN 2
    ELSE IF x.prob_details = [plan |-> "auto"] THEN 4
    ELSE 3

C24_phase_ordered(xs) ==
    \A i, j \in DOMAIN xs : i < j => C24_phase(xs[i]) <= C24_phase(xs[j])

C26_chosen_triggers(offer, ev) ==
    LET hits == {k \in DOMAIN offer.options : offer.options[k].code = ev.chosen_option}
    IN  IF hits = {} THEN <<>>
        ELSE Get(offer.options[CHOOSE k \in hits : \A m \in hits : k <= m], "triggers", <<>>)

\* the triggers chosen by a commit, over all its offers, in order
RECURSIVE C26_all_triggers(_, _, _)
C26_all_triggers(offers, committed, i) ==
    IF i > Len(offers) THEN <<>>
    ELSE C26_chosen_triggers(offers[i], committed[i]) \o C26_all_triggers(offers, committed, i + 1)

\* the payloads a step appended to the queue for a due day
C26_appended(queue, queue2, due) ==
    LET old == Get(queue, due, <<>>)
        new == Get(queue2, due, <<>>)
    IN  SubSeq(new, Len(old) + 1, Len(new))

\* C26: the trial of a trigger is made when its option is committed: after
\* commit_day(d) the payloads added to the queue for a day D come, each once
\* at most, from the triggers of the chosen options with d + delay = D; a
\* trigger of probability 1 is always among them, and nothing else (no
\* trigger of an option that was not chosen) is added.
C26_TrialAtCommit ==
    [][last'.op = "commit_day" =>
          LET d == last'.day
              offers == Get(selector.pending_offers, d, <<>>)
              trigs == C26_all_triggers(offers, last'.ret, 1)
              queue == selector.delayed_events
              queue2 == selector'.delayed_events
          IN  /\ \A due \in DOMAIN queue : due \in DOMAIN queue2
              /\ \A due \in DOMAIN queue2 :
                    LET added == C26_appended(queue, queue2, due)
                        mine == SelectSeq(trigs, LAMBDA t : d + t.after_days = due)
                        sure == SelectSeq(mine, LAMBDA t : t.prob = Certain)
                    IN  /\ SubSeq(queue2[due], 1, Len(Get(queue, due, <<>>)))
                              = Get(queue, due, <<>>)
                        /\ Len(sure) <= Len(added)
                        /\ Len(added) <= Len(mine)
                        /\ \A k \in DOMAIN added :
                              \E m \in DOMAIN mine :
                                  /\ mine[m].spawn = added[k].spawn
                                  /\ mine[m].data = added[k].data
              /\ \A t \in SeqToSet(trigs) :
                    t.prob = Certain => (d + t.after_days) \in DOMAIN queue2
      ]_vars

\* a commit_day of day 1 skipped the bill and delayed the paycheck: the late
\* fee (probability 0.9) was dropped at once, the paycheck was enqueued
C26_Witness ==
    /\ last.op = "commit_day"
    /\ last.day = 1
    /\ \E i \in DOMAIN last.ret :
          last.ret[i].type = "bill" /\ last.ret[i].chosen_option = "skip"
    /\ \E i \in DOMAIN last.ret :
          last.ret[i].type = "income" /\ last.ret[i].chosen_option = "delay_1d"
    /\ 6 \notin DOMAIN selector.delayed_events
    /\ 2 \in DOMAIN selector.delayed_events
    /\ Len(selector.delayed_events[2]) = 1

\* ------------------------------------------------------------------ C27
\* the forced offers of a scenario in a list of offers
C27_respawns(offers, scenario_id) ==
    {k \in DOMAIN offers : /\ offers[k].scenario_id = scenario_id
                           /\ "internal_forced_event" \in DOMAIN offers[k]}

C28_paychecks ==
    IF Started /\ last.op = "commit"
    THEN {i \in DOMAIN last.ret.committed : last.ret.committed[i].name = "Paycheck"}
    ELSE {}

\* C28: after a commit that settled a Paycheck, by a menu option or as a
\* forced event, last_pay_amount is the pay amount of the user's pay cycle.
C28_LastPayIsPayAmount ==
    C28_paychecks # {} =>
        SESSIONS[1].selector.last_pay_amount = SESSIONS[1].user.pay_cycle.amount

\* ------------------------------------------------------------------ C29
\* the balance factor as stated, in tenths
C29_factor(balance, tags) ==
    LET discretionary == \E i \in DOMAIN tags : tags[i] \in DISCRETIONARY_TAGS
    IN  IF balance < 0 /\ discretionary THEN 2
        ELSE IF 0 <= balance /\ balance < 200 * Dollar /\ discretionary THEN 5
        ELSE 10

\* C29: the balance factor of compute_probability is 0.2 for a negative
\* balance and a discretionary tag, 0.5 for a balance in [0, 200) and a
\* discretionary tag, and 1.0 otherwise.
C29_BalanceFactor ==
    last.op = "compute_probability" =>
        last.ret.details.balance = C29_factor(selector.balance, last.scn.tags)

\* compute_probability on Dinner Out (tags dining, leisure) with a balance of
\* -0.01: both tests of the code pass and the second one wins
C29_Witness ==
    /\ last.op = "compute_probability"
    /\ selector.balance = 0 - Cent
    /\ last.scn.name = "Dinner Out"
    /\ last.ret.details.balance = 2

\* ------------------------------------------------------------------ C30
\* the contribution as stated
C30_increments(plan, day) ==
    IF plan.frequency = "daily" THEN 1
    ELSE Max(1, Max(plan.due_day - day, 1) \div 7)

C30_contribution(plan, day) ==
    LET left == plan.total - plan.contributed
    IN  Min(left, Max(5 * Dollar, left \div C30_increments(plan, day)))

\* the due day of a plan: money remains, the due day has not passed, and the
\* plan is daily or the day is a whole number of weeks after its start
C30_due(plan, day) ==
    /\ plan.total - plan.contributed > 0
    /\ day <= plan.due_day
    /\ \/ plan.frequency = "daily"
       \/ day >= plan.start_day /\ (day - plan.start_day) % 7 = 0

\* C30: contributions_today gives, for the plan that is due, one event of
\* amount -min(remaining, max(5, remaining / increments)); the contribution
\* is > 0 and <= remaining, the event is an expense tagged savings, and the
\* plan's contributed grows by the contribution.
C30_ContributionAmount ==
    [][last'.op = "contributions_today" =>
          LET plan == selector.active_saving_plans[1]
              after == selector'.active_saving_plans[1]
              day == last'.today
              out == last'.ret
              left == plan.total - plan.contributed
          IN  IF C30_due(plan, day)
              THEN /\ Len(out) = 1
                   /\ out[1].amount = 0 - C30_contribution(plan, day)
                   /\ out[1].amount < 0
                   /\ 0 - out[1].amount <= left
                   /\ out[1].type = "expense"
                   /\ \E t \in DOMAIN out[1].tags : out[1].tags[t] = "savings"
                   /\ out[1].day = day
                   /\ after.contributed = plan.contributed + C30_contribution(plan, day)
              ELSE out = <<>> /\ after = plan
      ]_vars

\* a weekly plan of 30 over 90 days: twelve increments would give 2.50, so the
\* first contribution is the minimum of 5, and the second, a week later with
\* 25 left and eleven increments, is 5 again
C30_Witness ==
    /\ last.op = "contributions_today"
    /\ last.today = 8
    /\ Len(last.ret) = 1
    /\ last.ret[1].amount = 0 - 5 * Dollar
    /\ selector.active_saving_plans[1].total = 30 * Dollar
    /\ selector.active_saving_plans[1].contributed = 10 * Dollar
    /\ selector.active_saving_plans[1].frequency = "weekly"

\* ------------------------------------------------------------------ C31
\* C31: the catalog list the caller supplied to the constructor (env.catalog
\* when the engine was built; the engine keeps that very list as
\* self.catalog) holds the same scenario definitions after construction and
\* after every propose_day and commit_day.
C31_CatalogReadOnly ==
    selector # NoEngine => selector.catalog = env.catalog

\* what holds: propose_day and commit_day leave the catalog as the
\* constructor left it
C31_CallsKeepCatalog ==
    [][selector # NoEngine => selector'.catalog = selector.catalog]_vars

\* ------------------------------------------------------------------ C32
\* the weights of a scenario's tags, 1.0 for a tag the table lacks
C32_weights(tags, table) ==
    [i \in DOMAIN tags |-> IF tags[i] \in DOMAIN table THEN table[tags[i]] ELSE One]

RECURSIVE C32_product(_)
C32_product(ws) == IF ws = <<>> THEN 1 ELSE Head(ws) * C32_product(Tail(ws))

\* f is the tag factor of the tags under the table: 1.0 for no tags, and
\* otherwise the n-th root (rounded down to 1/One) of the product of the
\* weights, so exactly 1.0 when no tag is in the table
C32_is_factor(f, tags, table) ==
    LET ws == C32_weights(tags, table)
        n == Len(tags)
    IN  /\ tags = <<>> => f = One
        /\ (\A i \in DOMAIN tags : tags[i] \notin DOMAIN table) => f = One
        /\ n > 0 => (f ^ n <= C32_product(ws) /\ C32_product(ws) < (f + 1) ^ n)

\* C32: the segment factor and the mood factor of compute_probability are
\* 1.0 for a scenario without tags, count a tag that the table lacks as
\* 1.0, and are exactly 1.0 when no tag of the scenario is in the table.
C32_TagFactor ==
    last.op = "compute_probability" =>
        /\ C32_is_factor(last.ret.details.segment, last.scn.tags,
                         SEGMENTS[env.user.segment_key].tag_weights)
        /\ C32_is_factor(last.ret.details.mood, last.scn.tags, MOODS[env.user.mood])

\* Overdraft Fee (fees) for an early-career optimist: neither table has the
\* tag, and both factors are exactly 1.0
C32_Witness ==
    /\ last.op = "compute_probability"
    /\ last.scn.name = "Overdraft Fee"
    /\ env.user.segment_key = "early_career"
    /\ last.ret.details.segment = One
    /\ last.ret.details.mood = One

\* ------------------------------------------------------------------ C33
\* the realized amounts of a history
C33_amounts(history) == [i \in DOMAIN history |-> history[i].amount]

\* C33: the running balance of an engine is the balance it had after
\* construction plus the sum of the amounts of its history entries.
C33_BalanceConservation ==
    selector # NoEngine =>
        selector.balance = ScenarioSelectorChoices(env.catalog).balance
                           + SeqSum(C33_amounts(selector.history))

\* an engine whose history holds an accepted income, a paid expense and an
\* option that settled less than was proposed
C33_Witness ==
    /\ selector # NoEngine
    /\ selector.balance # 0
    /\ \E i, j, k \in DOMAIN selector.history :
          /\ selector.history[i].amount > 0
          /\ selector.history[j].amount < 0
          /\ selector.history[k].amount # selector.history[k].proposed_amount

\* ------------------------------------------------------------------ C34
\* C34: the balance that start reports, which is the engine's running
\* balance on day 1, is the base_balance of the profile.
C34_StartsAtBaseBalance ==
    (Started /\ last.op = "start") =>
        /\ last.ret.balance = env.user.base_balance
        /\ SESSIONS[last.sid].selector.balance = SESSIONS[last.sid].user.base_balance

\* ------------------------------------------------------------------ C35
\* C35: no Paycheck is offered with its menu (scheduled, that is, and not the
\* forced re-spawn of a delayed one) on a day before the start_day of the
\* user's pay cycle.
C35_NoPaycheckBeforeStart ==
    Started =>
        \A i \in DOMAIN SESSIONS[1].offers :
            LET o == SESSIONS[1].offers[i] IN
            (o.name = "Paycheck" /\ "internal_forced_event" \notin DOMAIN o)
                => o.day >= SESSIONS[1].user.pay_cycle.start_day

\* ------------------------------------------------------------------ C36
\* the day fields are non-decreasing along the list
C36_non_decreasing(history) ==
    \A i \in DOMAIN history : i > 1 => history[i - 1].day <= history[i].day

\* C36 as stated: after any sequence of propose_day and commit_day calls
\* history is day-ordered.
C36_DayOrderedAnySequence == C36_non_decreasing(selector.history)

\* C36 as amended: a propose_day leaves history as it is, and a commit_day
\* of a day that is not earlier than any day in a day-ordered history leaves
\* history day-ordered; so history is day-ordered as long as the days are
\* committed in non-decreasing order.
C36_DayOrderedCommits ==
    [][/\ last'.op = "propose_day" => selector'.history = selector.history
       /\ (/\ last'.op = "commit_day"
           /\ C36_non_decreasing(selector.history)
           /\ \A i \in DOMAIN selector.history : selector.history[i].day <= last'.day)
          => C36_non_decreasing(selector'.history)
      ]_vars

\* day 1 and then day 2 were committed, each with an event
C36_Witness ==
    /\ last.op = "commit_day"
    /\ last.day = 2
    /\ last.ret # <<>>
    /\ Len(selector.history) >= 2
    /\ selector.history[1].day = 1
    /\ selector.history[Len(selector.history)].day = 2
    /\ C36_non_decreasing(selector.history)

\* ------------------------------------------------------------------ C37
\* the forced offers or events of a list that realize delayed payloads
C37_triggered(xs) == SelectSeq(xs, LAMBDA x : x.prob_details = [forced |-> "triggered"])

\* one commit of a session, from day d to day d + 1: each forced offer of day
\* d that realizes a payload gives one event of day d, appended to history
\* with the rest of the day; the payloads queued for d + 1, before the commit
\* and by the chosen options with a delay of one day, are realized one for
\* one by the forced offers of d + 1; and afterwards the queue holds
\* payloads for later days only
C37_step ==
    [][last'.op = "commit" =>
          LET state == SESSIONS[1]
              after == SESSIONS'[1]
              d == state.day
              committed == last'.ret.committed
              queued == C14_resolving(state.selector,
                                      Get(state.selector.delayed_events, d + 1, <<>>))
              trigs == SelectSeq(C26_all_triggers(state.offers, committed, 1),
                                 LAMBDA t : t.after_days = 1)
              sure == SelectSeq(trigs, LAMBDA t : t.prob = Certain)
              next == C37_triggered(after.offers)
          IN  /\ Len(committed) = Len(state.offers)
              /\ after.selector.history = state.selector.history \o committed
              /\ \A i \in DOMAIN state.offers :
                    state.offers[i].prob_details = [forced |-> "triggered"] =>
                        /\ committed[i].day = d
                        /\ committed[i].chosen_option = "forced"
                        /\ committed[i].scenario_id = state.offers[i].scenario_id
                        /\ committed[i].amount = state.offers[i].proposed_amount
              /\ Len(queued) + Len(sure) <= Len(next)
              /\ Len(next) <= Len(queued) + Len(trigs)
              /\ \A k \in DOMAIN next :
                    /\ next[k].day = d + 1
                    /\ IF k <= Len(queued) THEN C14_realizes(next[k], queued[k])
                       ELSE \E m \in DOMAIN trigs : C14_realizes(next[k], trigs[m])
              /\ \A due \in DOMAIN after.selector.delayed_events : due > after.day
      ]_vars

\* the session has committed its last day and no payload that was due on a
\* day it played is left in the queue
C37_played_out ==
    /\ Started
    /\ SESSIONS[1].day > env.max_day
    /\ \A due \in DOMAIN SESSIONS[1].selector.delayed_events : due > SESSIONS[1].day

\* C37: in a session that keeps committing, every payload queued for a day
\* the session plays is realized by a forced offer of that day and yields
\* exactly one event of that day in history (the steps), and the session
\* does play every day, after which no such payload is left in the queue.
C37_Delivered == C37_step /\ <>[]C37_played_out

\* day 4 committed the remainder of the bill that day 1 paid in part
C37_Witness ==
    /\ Started
    /\ last.op = "commit"
    /\ last.day = 4
    /\ \E i \in DOMAIN last.ret.committed :
          /\ last.ret.committed[i].scenario_id = "deferred_payment"
          /\ last.ret.committed[i].chosen_option = "forced"
          /\ last.ret.committed[i].day = 4
    /\ \E h \in DOMAIN SESSIONS[1].selector.history :
          /\ SESSIONS[1].selector.history[h].day = 1
          /\ SESSIONS[1].selector.history[h].chosen_option = "pay_partial"
    /\ 4 \notin DOMAIN SESSIONS[1].selector.delayed_events

\* ------------------------------------------------------------------ C38
C38_funded(plan) == plan.contributed = plan.total

\* the offers of a list that are plan contributions
C38_contributions(xs) == SelectSeq(xs, LAMBDA o : o.prob_details = [plan |-> "auto"])

\* once the session has reached the due day of a plan (the offers of that
\* day, its contribution included, are made), the plan is fully funded
C38_funded_by_due_day ==
    Started =>
        \A i \in DOMAIN SESSIONS[1].selector.active_saving_plans :
            LET plan == SESSIONS[1].selector.active_saving_plans[i] IN
            /\ plan.due_day = plan.start_day + 90
            /\ SESSIONS[1].day >= plan.due_day => C38_funded(plan)

\* a commit leaves a funded plan funded, and when every plan is funded the
\* offers of the next day hold no contribution
C38_stays_funded ==
    [][last'.op = "commit" =>
          LET plans == SESSIONS[1].selector.active_saving_plans
              plans2 == SESSIONS'[1].selector.active_saving_plans
          IN  /\ \A i \in DOMAIN plans :
                    C38_funded(plans[i]) => (i \in DOMAIN plans2 /\ plans2[i] = plans[i])
              /\ (plans # <<>> /\ \A i \in DOMAIN plans : C38_funded(plans[i]))
                    => Len(C38_contributions(last'.ret.next_offers))
                           = Len(plans2) - Len(plans)
      ]_vars

\* the session has played its last day and every plan whose due day it
\* reached is funded
C38_played_out ==
    /\ Started
    /\ SESSIONS[1].day > env.max_day
    /\ \A i \in DOMAIN SESSIONS[1].selector.active_saving_plans :
          LET plan == SESSIONS[1].selector.active_saving_plans[i] IN
          plan.due_day <= SESSIONS[1].day => C38_funded(plan)

\* C38: in a session that keeps committing, a plan started by a pledge (due
\* 90 days after its start) is fully funded when the session reaches its due
\* day; a funded plan stays funded and gets no further contribution; and the
\* session does reach the due day of every plan due within its days.
C38_FundedByDueDay == []C38_funded_by_due_day /\ C38_stays_funded /\ <>[]C38_played_out

\* the pledge of day 1 (due on day 91) was funded on day 78, and the session
\* has passed its due day without another contribution
C38_Witness ==
    /\ Started
    /\ SESSIONS[1].day = 92
    /\ Len(SESSIONS[1].selector.active_saving_plans) = 1
    /\ SESSIONS[1].selector.active_saving_plans[1].start_day = 1
    /\ SESSIONS[1].selector.active_saving_plans[1].due_day = 91
    /\ SESSIONS[1].selector.active_saving_plans[1].contributed
           = SESSIONS[1].selector.active_saving_plans[1].total
    /\ SESSIONS[1].selector.active_saving_plans[1].total = 500 * Dollar
    /\ Len(SelectSeq(SESSIONS[1].selector.history,
                     LAMBDA ev : ev.scenario_id = "saving_contribution")) = 11
    /\ \E h \in DOMAIN SESSIONS[1].selector.history :
          /\ SESSIONS[1].selector.history[h].scenario_id = "saving_contribution"
          /\ SESSIONS[1].selector.history[h].day = 78
    /\ C38_contributions(SESSIONS[1].offers) = <<>>


\* ------------------------------------------------------------------ C39
\* what the plans of an engine hold, plan by plan
C39_contributed(e) ==
    [i \in DOMAIN e.active_saving_plans |-> e.active_saving_plans[i].contributed]

\* the magnitudes of the Saving Plan Contribution events of a history
C39_committed(history) ==
    LET events == SelectSeq(history, LAMBDA ev : ev.scenario_id = "saving_contribution")
    IN  [i \in DOMAIN events |-> -events[i].amount]

\* C39: once every proposed day has been committed (no day's offers are
\* pending), the sum of contributed over the saving plans equals the sum of
\* the magnitudes of the Saving Plan Contribution events in history.
C39_LedgerAgreesWithHistory ==
    (selector # NoEngine /\ selector.pending_offers = EmptyDict)
        => SeqSum(C39_contributed(selector)) = SeqSum(C39_committed(selector.history))


\* ------------------------------------------------------------------ C40
\* the engine state a commit_day may move, the pending offers of the day
\* itself left out
C40_state(e, day) ==
    <<e.balance, e.history, e.delayed_events, e.active_saving_plans,
      e.last_pay_amount, DictPop(e.pending_offers, day)>>

\* a commit_day step that returns nothing and moves nothing
C40_noop ==
    /\ last'.ret = <<>>
    /\ C40_state(selector', last'.day) = C40_state(selector, last'.day)
    /\ last'.day \notin DOMAIN selector'.pending_offers

\* C40: a commit_day of a day with no pending offers (never proposed, or
\* already committed) returns the empty list and leaves balance, history,
\* the delayed-spawn queue, the saving plans, the last pay amount and the
\* pending offers of the other days unchanged; a commit_day that follows a
\* commit_day of the same day is such a call, so a day's offers are
\* committed once.
C40_CommitWithoutPendingIsNoop ==
    [][/\ (last'.op = "commit_day"
           /\ Get(selector.pending_offers, last'.day, <<>>) = <<>>) => C40_noop
       /\ (last.op = "commit_day" /\ last'.op = "commit_day"
           /\ last'.day = last.day) => C40_noop
      ]_vars

\* a second commit_day of a day whose events are in history, while the
\* offers of another day are pending
C40_Witness ==
    /\ last.op = "commit_day"
    /\ last.ret = <<>>
    /\ \E i \in DOMAIN selector.history : selector.history[i].day = last.day
    /\ \E d \in DOMAIN selector.pending_offers :
          d # last.day /\ selector.pending_offers[d] # <<>>

====
